---- MODULE Spec2Model ----
(***************************************************************************)
(* tasque: calendar schedules (Schedule / Component) and their             *)
(* next-occurrence cascade, modelled from src/src/schedule/component.rs    *)
(* and src/src/schedule/mod.rs.                                            *)
(*                                                                         *)
(* Three specifications share the variables below:                         *)
(*   SpecField  - Component::min_value / min_value_bounded on fields built *)
(*                by Component::new, over the whole u8 range of bounds;    *)
(*   SpecBuild  - the public constructors and builder methods of Schedule; *)
(*   Spec       - Schedule::next_occurrence on constructed schedules.      *)
(***************************************************************************)
EXTENDS Integers, Sequences, FiniteSets, TLC

VARIABLES
    comp,       \* SpecField: the Component<N> under test, [n, start, end, step]
    bound,      \* SpecField: the lower_bound last passed to min_value_bounded
    minOut,     \* SpecField: what the last min_value / min_value_bounded call returned
    sched,      \* SpecBuild: the Schedule the caller holds
    call,       \* SpecBuild: the last constructor / builder call and its outcome
    pattern,    \* Spec: the Schedule whose next_occurrence is taken
    now,        \* Spec: the instant passed to next_occurrence
    occ,        \* Spec: the instant next_occurrence returned (or NotCalled)
    times,      \* SpecMerge: Builder::times, the schedules given to the builder
    schedules,  \* SpecMerge: the Schedules that Builder::build made (or NotCalled)
    instant,    \* SpecMerge: the instant passed to Schedules::next_occurrence
    merged,     \* SpecMerge: what Schedules::next_occurrence returned (or NotCalled)
    tasks,          \* SpecSched: ManualSleep::tasks, a Vec of TaskEntry
    next_ids_buf,   \* SpecSched: ManualSleep::next_ids_buf
    previous_time,  \* SpecSched: ManualSleep::previous_time
    pull,           \* SpecSched: the last call on the scheduler and what it returned
    batch,          \* SpecSched: the fire time last selected, the ids then due and those returned since
    pulls,          \* SpecSched: the number of calls of next made
    edits,          \* SpecSched: the number of calls of insert and remove made
    given,          \* SpecPack: the const parameter N and the argument n of SpecificTime::new
    specific,       \* SpecPack: the SpecificTime<N> that new returned (or NotCalled)
    decoded,        \* SpecPack: what SpecificTime::get returned (or NotCalled)
    vec,            \* SpecBuf: the Vec<TaskTime> given to TaskTimeBuf::new_from_vec
    time_buf,       \* SpecBuf: the TaskTimeBuf that new_from_vec returned (or NotCalled)
    seen            \* SpecBuf: the last call of iter / next_occurrence and what it returned

vars == <<comp, bound, minOut, sched, call, pattern, now, occ,
         times, schedules, instant, merged,
         tasks, next_ids_buf, previous_time, pull, batch, pulls, edits,
         given, specific, decoded, vec, time_buf, seen>>

fieldVars == <<comp, bound, minOut>>
buildVars == <<sched, call>>
occVars   == <<pattern, now, occ>>
mergeVars == <<times, schedules, instant, merged>>
schedVars == <<tasks, next_ids_buf, previous_time, pull, batch, pulls, edits>>
packVars  == <<given, specific, decoded>>
bufVars   == <<vec, time_buf, seen>>

----------------------------------------------------------------------------
(* Option<T> and Result<T, Error>                                          *)

None == <<>>
Some(v) == <<v>>
IsSome(o) == o # <<>>
Unwrap(o) == o[1]

Err == <<>>
Ok(v) == <<v>>
IsOk(r) == r # <<>>

----------------------------------------------------------------------------
(* u8 arithmetic                                                           *)

\* u8::MAX: start, end, step and lower_bound are all u8 / NonZeroU8.
U8Max == 255

U8 == 0..U8Max

\* NonZeroU8::new: None for 0.
NonZeroU8New(n) == IF n = 0 THEN None ELSE Some(n)

\* u8::checked_mul
checked_mul(a, b) == IF a * b > U8Max THEN None ELSE Some(a * b)

\* u8::checked_add
WrappingAdd(a, b) == Some((a + b) % (U8Max + 1))
checked_add(a, b) == IF a + b > U8Max THEN None ELSE Some(a + b)

\* component.rs div_ceil: (lhs / rhs) + u8::from((lhs % rhs) != 0)
DivFloor(lhs, rhs) == lhs \div rhs
div_ceil(lhs, rhs) == (lhs \div rhs) + (IF (lhs % rhs) # 0 THEN 1 ELSE 0)

----------------------------------------------------------------------------
(* Component<N>                                                            *)

\* Component::new(start, end, step): step is a NonZeroU8 already.
ComponentNewNoDomainCheck(n, start, end, step) ==
    IF start <= end
    THEN Ok([n |-> n, start |-> start, end |-> end, step |-> step])
    ELSE Err
ComponentNewNoOrderCheck(n, start, end, step) ==
    IF end <= n
    THEN Ok([n |-> n, start |-> start, end |-> end, step |-> step])
    ELSE Err
ComponentNew(n, start, end, step) ==
    IF start <= end /\ end <= n
    THEN Ok([n |-> n, start |-> start, end |-> end, step |-> step])
    ELSE Err

exactly(n, val) == ComponentNew(n, val, val, 1)

\* What a call that hit unreachable!() leaves behind.
Unreachable == [panic |-> "unreachable"]

\* exactly_zero: unreachable!() on Err
exactly_zero(n) ==
    LET r == exactly(n, 0) IN IF IsOk(r) THEN Unwrap(r) ELSE Unreachable

between(n, start, end) == ComponentNew(n, start, end, 1)

\* every_step: unreachable!() on Err
every_step(n, step) ==
    LET r == ComponentNew(n, 0, n, step) IN IF IsOk(r) THEN Unwrap(r) ELSE Unreachable

every(n) == every_step(n, 1)

MinValueZero(c) == 0
min_value(c) == c.start

min_value_bounded(c, lower_bound) ==
    IF lower_bound <= c.start
    THEN Some(c.start)
    ELSE LET bound_offset == lower_bound - c.start
             num_steps == div_ceil(bound_offset, c.step)
             min_value_offset == checked_mul(num_steps, c.step)
         IN  IF ~IsSome(min_value_offset)
             THEN None
             ELSE LET mv == checked_add(c.start, Unwrap(min_value_offset))
                  IN  IF ~IsSome(mv)
                      THEN None
                      ELSE IF Unwrap(mv) <= c.end THEN mv ELSE None

----------------------------------------------------------------------------
(* Schedule: constructors and builder methods (schedule/mod.rs 23-261)     *)

\* The const parameters of the four fields of struct Schedule.
DayN == 30
HourN == 23
MinuteN == 59
SecondN == 59

ScheduleNew(day, hour, minute, second) ==
    [day |-> day, hour |-> hour, minute |-> minute, second |-> second]

new_every_second == ScheduleNew(every(DayN), every(HourN), every(MinuteN), every(SecondN))
new_every_minute ==
    ScheduleNew(every(DayN), every(HourN), every(MinuteN), exactly_zero(SecondN))
new_every_hour ==
    ScheduleNew(every(DayN), every(HourN), exactly_zero(MinuteN), exactly_zero(SecondN))
new_every_day ==
    ScheduleNew(every(DayN), exactly_zero(HourN), exactly_zero(MinuteN), exactly_zero(SecondN))
new_every_month ==
    ScheduleNew(exactly_zero(DayN), exactly_zero(HourN), exactly_zero(MinuteN),
                exactly_zero(SecondN))

\* `Self { f: c, ..self }`
WithField(self, f, c) == [self EXCEPT ![f] = c]

\* The infallible exact setters: `match Component::exactly(v) { Ok(c) => c,
\* Err(_) => unreachable!() }`.
ExactOrUnreachable(self, f, r) ==
    IF IsOk(r) THEN WithField(self, f, Unwrap(r)) ELSE Unreachable

\* The fallible setters: `Ok(Self { f: Component::..(..).map_err(|_| Error)?, ..self })`.
OkOrError(self, f, r) ==
    IF IsOk(r) THEN Ok(WithField(self, f, Unwrap(r))) ELSE Err

\* at_day(day: NonZeroU8): Component::exactly((day - 1) % 31)
AtDayUnreduced(self, day) == ExactOrUnreachable(self, "day", exactly(DayN, day - 1))
at_day(self, day) == ExactOrUnreachable(self, "day", exactly(DayN, (day - 1) % 31))
at_first_day(self) == WithField(self, "day", exactly_zero(DayN))
at_every_day(self) == WithField(self, "day", every(DayN))
at_every_nth_day(self, n) == WithField(self, "day", every_step(DayN, n))

\* day1_range_to_day0_range: (start - 1, end - 1) of NonZeroU8 bounds
day1_range_to_day0_range(range) == <<range[1] - 1, range[2] - 1>>

at_every_day_between(self, range) ==
    LET r0 == day1_range_to_day0_range(range)
    IN  OkOrError(self, "day", between(DayN, r0[1], r0[2]))
at_every_nth_day_between(self, range, n) ==
    LET r0 == day1_range_to_day0_range(range)
    IN  OkOrError(self, "day", ComponentNew(DayN, r0[1], r0[2], n))

at_hour(self, hour) == ExactOrUnreachable(self, "hour", exactly(HourN, hour % 24))
at_zero_hour(self) == WithField(self, "hour", exactly_zero(HourN))
at_every_hour(self) == WithField(self, "hour", every(HourN))
at_every_nth_hour(self, n) == WithField(self, "hour", every_step(HourN, n))
at_every_hour_between(self, range) ==
    OkOrError(self, "hour", between(HourN, range[1], range[2]))
at_every_nth_hour_between(self, range, n) ==
    OkOrError(self, "hour", ComponentNew(HourN, range[1], range[2], n))

at_minute(self, minute) == ExactOrUnreachable(self, "minute", exactly(MinuteN, minute % 60))
at_zero_minute(self) == WithField(self, "minute", exactly_zero(MinuteN))
at_every_minute(self) == WithField(self, "minute", every(MinuteN))
at_every_nth_minute(self, n) == WithField(self, "minute", every_step(MinuteN, n))
at_every_minute_between(self, range) ==
    OkOrError(self, "minute", between(MinuteN, range[1], range[2]))
at_every_nth_minute_between(self, range, n) ==
    OkOrError(self, "minute", ComponentNew(MinuteN, range[1], range[2], n))

at_second(self, second) == ExactOrUnreachable(self, "second", exactly(SecondN, second % 60))
at_zero_second(self) == WithField(self, "second", exactly_zero(SecondN))
at_every_second(self) == WithField(self, "second", every(SecondN))
at_every_nth_second(self, n) == WithField(self, "second", every_step(SecondN, n))
at_every_second_between(self, range) ==
    OkOrError(self, "second", between(SecondN, range[1], range[2]))
at_every_nth_second_between(self, range, n) ==
    OkOrError(self, "second", ComponentNew(SecondN, range[1], range[2], n))

----------------------------------------------------------------------------
(* DateTime<Utc>: the chrono operations the cascade calls                  *)

\* An instant: calendar fields (month and day 1-based) and nanoseconds.
DateTime(y, mo, d, h, mi, s, ns) ==
    [year |-> y, month |-> mo, day |-> d, hour |-> h, minute |-> mi, second |-> s,
     nano |-> ns]

\* What `.expect("invalid time")` and chrono's panicking constructors leave behind.
InvalidTime == [panic |-> "invalid time"]

IsPanic(t) == "panic" \in DOMAIN t

\* Days since 1970-01-01 of a proleptic Gregorian date (chrono's NaiveDate
\* day count), for years from 1 on.
days_from_civil(y, m, d) ==
    LET yy == IF m <= 2 THEN y - 1 ELSE y
        era == yy \div 400
        yoe == yy - era * 400
        doy == (153 * (IF m > 2 THEN m - 3 ELSE m + 9) + 2) \div 5 + d - 1
        doe == yoe * 365 + yoe \div 4 - yoe \div 100 + doy
    IN  era * 146097 + doe - 719468

\* The date of a day count, <<year, month, day>>.
civil_from_days(z) ==
    LET zz == z + 719468
        era == zz \div 146097
        doe == zz - era * 146097
        yoe == (doe - doe \div 1460 + doe \div 36524 - doe \div 146096) \div 365
        doy == doe - (365 * yoe + yoe \div 4 - yoe \div 100)
        mp == (5 * doy + 2) \div 153
        d == doy - (153 * mp + 2) \div 5 + 1
        m == IF mp < 10 THEN mp + 3 ELSE mp - 9
        y == yoe + era * 400
    IN  <<IF m <= 2 THEN y + 1 ELSE y, m, d>>

\* schedule/mod.rs days_in_month: the days between the first of the month and
\* the first of the next.
days_in_month(year, month) ==
    LET month_start == days_from_civil(year, month, 1)
        next_month_start == IF month = 12
                            THEN days_from_civil(year + 1, 1, 1)
                            ELSE days_from_civil(year, month + 1, 1)
    IN  next_month_start - month_start

\* Seconds since the epoch; DateTime's ordering compares <<timestamp, nano>>.
timestamp(t) ==
    days_from_civil(t.year, t.month, t.day) * 86400
        + t.hour * 3600 + t.minute * 60 + t.second

Before(a, b) ==
    \/ timestamp(a) < timestamp(b)
    \/ timestamp(a) = timestamp(b) /\ a.nano < b.nano

AtOrBefore(a, b) == a = b \/ Before(a, b)

\* DateTime + Duration of whole seconds: the sub-second part is kept.
AddSecondsDropped(t, secs) == t
AddSeconds(t, secs) ==
    LET ts == timestamp(t) + secs
        date == civil_from_days(ts \div 86400)
        sod == ts % 86400
    IN  DateTime(date[1], date[2], date[3],
                 sod \div 3600, (sod % 3600) \div 60, sod % 60, t.nano)

\* Option::expect("invalid time")
Expect(o) == IF IsSome(o) THEN Unwrap(o) ELSE InvalidTime

\* Timelike::with_hour / with_minute / with_second / with_nanosecond and
\* Datelike::with_day0: None when the value is out of range for the date.
with_hour(t, h) == IF h <= 23 THEN Some([t EXCEPT !.hour = h]) ELSE None
with_minute(t, mi) == IF mi <= 59 THEN Some([t EXCEPT !.minute = mi]) ELSE None
with_second(t, s) == IF s <= 59 THEN Some([t EXCEPT !.second = s]) ELSE None
WithNanosecondKept(t, ns) == Some(t)
with_nanosecond(t, ns) == Some([t EXCEPT !.nano = ns])
\* `.and_then(|time| time.with_minute(..))` and its like on an Option<DateTime>.
then_with_minute(o, mi) == IF IsSome(o) THEN with_minute(Unwrap(o), mi) ELSE None
then_with_second(o, s) == IF IsSome(o) THEN with_second(Unwrap(o), s) ELSE None
then_with_nanosecond(o, ns) == IF IsSome(o) THEN with_nanosecond(Unwrap(o), ns) ELSE None

with_day0(t, d0) ==
    IF d0 < days_in_month(t.year, t.month) THEN Some([t EXCEPT !.day = d0 + 1]) ELSE None

\* TimeZone::ymd(..).and_hms(..) and Date::and_hms: panic on an invalid date or time.
ymd_and_hms(y, mo, d, h, mi, s) ==
    IF /\ mo \in 1..12
       /\ d >= 1
       /\ d <= days_in_month(y, mo)
       /\ h <= 23 /\ mi <= 59 /\ s <= 59
    THEN DateTime(y, mo, d, h, mi, s, 0)
    ELSE InvalidTime

\* time.date().succ(): the next calendar day, <<year, month, day>>.
date_succ(t) == civil_from_days(days_from_civil(t.year, t.month, t.day) + 1)

\* u8::try_from(u32).ok()
u8_try_from(v) == IF v <= U8Max THEN Some(v) ELSE None

----------------------------------------------------------------------------
(* Schedule::next_occurrence: the cascade (schedule/mod.rs 263-408)        *)

MIN_DAYS == 28

\* Option<u8>::map(|target| (current, target))
PairWith(current, target) ==
    IF IsSome(target) THEN Some(<<current, Unwrap(target)>>) ELSE None

\* `.and_then(|current| field.min_value_bounded(current).map(..))`
TargetFor(c, current) ==
    IF IsSome(current)
    THEN PairWith(Unwrap(current), min_value_bounded(c, Unwrap(current)))
    ELSE None

\* The scrutinee of each stage's match: Some(<<current, target>>) or None.
CurrentAndTarget(c, current) == TargetFor(c, u8_try_from(current))

\* The three arms of the match of advance_to_s, on the scrutinee ct.
SecondArmsTruncating(self, time, ct) ==
    IF IsSome(ct)
    THEN Expect(then_with_nanosecond(with_second(time, Unwrap(ct)[2]), 0))
    ELSE Expect(then_with_nanosecond(
             with_second(AddSeconds(time, 60), min_value(self.second)), 0))
SecondArms(self, time, ct) ==
    IF IsSome(ct)
    THEN IF Unwrap(ct)[1] = Unwrap(ct)[2]
         THEN time
         ELSE Expect(then_with_nanosecond(with_second(time, Unwrap(ct)[2]), 0))
    ELSE Expect(then_with_nanosecond(
             with_second(AddSeconds(time, 60), min_value(self.second)), 0))

advance_to_s(self, time) ==
    SecondArms(self, time, CurrentAndTarget(self.second, time.second))

\* The three arms of the match of advance_to_ms.
MinuteArmsKeepingSecond(self, time, ct) ==
    IF IsSome(ct)
    THEN IF Unwrap(ct)[1] = Unwrap(ct)[2]
         THEN time
         ELSE Expect(then_with_nanosecond(with_minute(time, Unwrap(ct)[2]), 0))
    ELSE Expect(then_with_nanosecond(then_with_second(
             with_minute(AddSeconds(time, 3600), min_value(self.minute)),
             min_value(self.second)), 0))
MinuteArms(self, time, ct) ==
    IF IsSome(ct)
    THEN IF Unwrap(ct)[1] = Unwrap(ct)[2]
         THEN time
         ELSE Expect(then_with_nanosecond(then_with_second(
                  with_minute(time, Unwrap(ct)[2]),
                  min_value(self.second)), 0))
    ELSE Expect(then_with_nanosecond(then_with_second(
             with_minute(AddSeconds(time, 3600), min_value(self.minute)),
             min_value(self.second)), 0))

\* advance_to_ms once `let time = self.advance_to_s(time)` is bound.
MinuteStage(self, time) ==
    IF IsPanic(time)
    THEN time
    ELSE MinuteArms(self, time, CurrentAndTarget(self.minute, time.minute))

advance_to_ms(self, time) == MinuteStage(self, advance_to_s(self, time))

\* `time.date().succ().and_hms(..)` at the field minimums.
NextDayAtMinimums(self, next) ==
    ymd_and_hms(next[1], next[2], next[3], min_value(self.hour),
                min_value(self.minute), min_value(self.second))

\* The three arms of the match of advance_to_hms.
HourArmsKeepingMinute(self, time, ct) ==
    IF IsSome(ct)
    THEN IF Unwrap(ct)[1] = Unwrap(ct)[2]
         THEN time
         ELSE Expect(then_with_nanosecond(then_with_second(
                  with_hour(time, Unwrap(ct)[2]),
                  min_value(self.second)), 0))
    ELSE NextDayAtMinimums(self, date_succ(time))
HourArms(self, time, ct) ==
    IF IsSome(ct)
    THEN IF Unwrap(ct)[1] = Unwrap(ct)[2]
         THEN time
         ELSE Expect(then_with_nanosecond(then_with_second(then_with_minute(
                  with_hour(time, Unwrap(ct)[2]),
                  min_value(self.minute)),
                  min_value(self.second)), 0))
    ELSE NextDayAtMinimums(self, date_succ(time))

\* advance_to_hms once `let time = self.advance_to_ms(time)` is bound.
HourStage(self, time) ==
    IF IsPanic(time)
    THEN time
    ELSE HourArms(self, time, CurrentAndTarget(self.hour, time.hour))

advance_to_hms(self, time) == HourStage(self, advance_to_ms(self, time))

\* Bound on the unrolling of the month loop of advance_to_dhms.
MonthSearchFuel == 24

\* The `loop` of advance_to_dhms: advance to the next month until one holds
\* target_d; <<year, month, iterations>>, or <<>> when the fuel runs out.
RECURSIVE MonthSearch(_, _, _, _)
MonthSearchOffByOne(target_d, year, month, iterations) ==
    LET next == IF month = 12 THEN <<year + 1, 1>> ELSE <<year, month + 1>>
    IN  IF target_d < MIN_DAYS \/ target_d <= days_in_month(next[1], next[2])
        THEN <<next[1], next[2], iterations + 1>>
        ELSE MonthSearch(target_d, next[1], next[2], iterations + 1)

MonthSearchSameYear(target_d, year, month, iterations) ==
    LET next == IF month = 12 THEN <<year, 1>> ELSE <<year, month + 1>>
    IN  IF target_d < MIN_DAYS \/ target_d < days_in_month(next[1], next[2])
        THEN <<next[1], next[2], iterations + 1>>
        ELSE IF iterations + 1 >= MonthSearchFuel
             THEN <<>>
             ELSE MonthSearch(target_d, next[1], next[2], iterations + 1)
MonthSearch(target_d, year, month, iterations) ==
    LET next == IF month = 12 THEN <<year + 1, 1>> ELSE <<year, month + 1>>
    IN  IF target_d < MIN_DAYS \/ target_d < days_in_month(next[1], next[2])
        THEN <<next[1], next[2], iterations + 1>>
        ELSE IF iterations + 1 >= MonthSearchFuel
             THEN <<>>
             ELSE MonthSearch(target_d, next[1], next[2], iterations + 1)

Diverged == [panic |-> "month search did not end"]

\* `date.and_hms(..)` at the field minimums; InvalidTime when with_day0 or ymd
\* found no such date.
DateAtMinimums(self, date) ==
    IF IsSome(date)
    THEN ymd_and_hms(Unwrap(date).year, Unwrap(date).month, Unwrap(date).day,
                     min_value(self.hour), min_value(self.minute), min_value(self.second))
    ELSE InvalidTime

\* The last arm of the match of advance_to_dhms: the month loop and its return.
MonthArm(self, target_d, found) ==
    IF found = <<>>
    THEN Diverged
    ELSE ymd_and_hms(found[1], found[2], target_d + 1,
                     min_value(self.hour), min_value(self.minute), min_value(self.second))

\* The three arms of the match of advance_to_dhms.
DayArmsUnguarded(self, time, ct) ==
    IF IsSome(ct) /\ Unwrap(ct)[1] = Unwrap(ct)[2]
    THEN time
    ELSE IF IsSome(ct)
    THEN DateAtMinimums(self, with_day0(time, Unwrap(ct)[2]))
    ELSE MonthArm(self, min_value(self.day),
                  MonthSearch(min_value(self.day), time.year, time.month, 0))
DayArms(self, time, ct) ==
    IF IsSome(ct) /\ Unwrap(ct)[1] = Unwrap(ct)[2]
    THEN time
    ELSE IF /\ IsSome(ct)
            /\ \/ Unwrap(ct)[2] < MIN_DAYS
               \/ Unwrap(ct)[2] < days_in_month(time.year, time.month)
    THEN DateAtMinimums(self, with_day0(time, Unwrap(ct)[2]))
    ELSE MonthArm(self, min_value(self.day),
                  MonthSearch(min_value(self.day), time.year, time.month, 0))

\* advance_to_dhms once `let time = self.advance_to_hms(time)` is bound.
DayStage(self, time) ==
    IF IsPanic(time)
    THEN time
    ELSE DayArms(self, time, CurrentAndTarget(self.day, time.day - 1))

advance_to_dhms(self, time) == DayStage(self, advance_to_hms(self, time))

next_occurrence(self, nowArg) == advance_to_dhms(self, nowArg)

----------------------------------------------------------------------------
(* SpecField: min_value and min_value_bounded on constructed fields        *)

\* The three domains Schedule instantiates Component<N> with.
FieldDomains == {30, 23, 59}

\* Steps below this bound are all tried, next to a few large ones.
MaxSmallStep == 3

FieldStartArgs == {0, 1, 5, 18, 30}
FieldEndArgs == {0, 9, 20, 23, 30, 59}
FieldStepArgs == (1..MaxSmallStep) \cup {5, 7, 100, 128, 254, U8Max}

\* Every field Component::new accepts for these arguments.
FieldsUnderTest ==
    { Unwrap(ComponentNew(n, s, e, st)) :
        <<n, s, e, st>> \in
            { q \in FieldDomains \X FieldStartArgs \X FieldEndArgs \X FieldStepArgs :
                IsOk(ComponentNew(q[1], q[2], q[3], q[4])) } }

NotCalled == [op |-> "none"]

\* Values the variables of the other specifications rest at.
IdleBuild == sched = new_every_second /\ call = NotCalled
IdleOcc == pattern = new_every_second /\ now = NotCalled /\ occ = NotCalled
IdleField == comp = every(59) /\ bound = 0 /\ minOut = NotCalled
IdleMerge ==
    times = <<>> /\ schedules = NotCalled /\ instant = NotCalled /\ merged = NotCalled
IdleSched ==
    /\ tasks = <<>> /\ next_ids_buf = <<>> /\ previous_time = None
    /\ pull = NotCalled /\ batch = NotCalled /\ pulls = 0 /\ edits = 0
IdlePack == given = NotCalled /\ specific = NotCalled /\ decoded = NotCalled
IdleBuf == vec = <<>> /\ time_buf = NotCalled /\ seen = NotCalled

InitField ==
    /\ comp \in FieldsUnderTest
    /\ bound = 0
    /\ minOut = NotCalled
    /\ IdleBuild
    /\ IdlePack
    /\ IdleBuf
    /\ IdleOcc
    /\ IdleMerge
    /\ IdleSched

\* Both are pure functions of a Copy value: one call per drawn field is every
\* behaviour there is.
MinValue ==
    /\ minOut = NotCalled
    /\ minOut' = [op |-> "min_value", res |-> Some(min_value(comp))]
    /\ UNCHANGED <<comp, bound, buildVars, occVars, mergeVars, schedVars, packVars, bufVars>>

MinValueBounded ==
    \E lower_bound \in U8 :
        /\ minOut = NotCalled
        /\ bound' = lower_bound
        /\ minOut' = [op |-> "min_value_bounded",
                      res |-> min_value_bounded(comp, lower_bound)]
        /\ UNCHANGED <<comp, buildVars, occVars, mergeVars, schedVars, packVars, bufVars>>

NextField == MinValue \/ MinValueBounded

SpecField == InitField /\ [][NextField]_vars

\* The value set of a field: {start, start+step, ...} within [start, end].
Values(c) == { v \in c.start..c.end : (v - c.start) % c.step = 0 }

SetMin(S) == CHOOSE v \in S : \A w \in S : v <= w

AtOrAbove(c, lo) == { v \in Values(c) : v >= lo }

\* C6: min_value_bounded(lower_bound) is the smallest value of the field's set
\* that is >= lower_bound, none exactly when there is no such value, and start
\* whenever lower_bound <= start.
C6_MinValueBoundedIsLeast ==
    minOut.op = "min_value_bounded" =>
        /\ minOut.res = (IF AtOrAbove(comp, bound) = {}
                         THEN None
                         ELSE Some(SetMin(AtOrAbove(comp, bound))))
        /\ (bound <= comp.start => minOut.res = Some(comp.start))

\* A call that had to round up past the bound to the next stepped value.
C6_Witness ==
    /\ minOut.op = "min_value_bounded"
    /\ bound > comp.start
    /\ comp.step > 1
    /\ IsSome(minOut.res)
    /\ Unwrap(minOut.res) > bound

\* The least k with k * step >= offset, found by search rather than division.
LeastSteps(offset, step) == SetMin({ k \in 0..offset : k * step >= offset })

\* C7: the step count is the ceiling of (lower_bound - start) / step, and a
\* product or sum beyond the u8 range yields none, never a wrapped value.
C7_CeilingAndOverflow ==
    (minOut.op = "min_value_bounded" /\ bound > comp.start) =>
        LET offset == bound - comp.start
            n == div_ceil(offset, comp.step)
            exact == comp.start + LeastSteps(offset, comp.step) * comp.step
        IN  /\ n = LeastSteps(offset, comp.step)
            /\ n <= U8Max
            /\ (exact > U8Max => minOut.res = None)
            /\ (IsSome(minOut.res) => Unwrap(minOut.res) = exact)

\* A call whose product num_steps * step leaves the u8 range.
C7_Witness ==
    /\ minOut.op = "min_value_bounded"
    /\ bound > comp.start
    /\ div_ceil(bound - comp.start, comp.step) * comp.step > U8Max
    /\ minOut.res = None

----------------------------------------------------------------------------
(* SpecBuild: any sequence of public constructors and builder methods      *)

\* Raw u8 arguments a caller may hold, around the upper end of each field's
\* domain (the day arguments are 1-based). The four units share their code
\* shape, so the hour methods get the widest choice.
DayExactArgs == {0, DayN + 1, DayN + 2}
HourExactArgs == {0, HourN, HourN + 1, U8Max}
MinuteExactArgs == {MinuteN, MinuteN + 1}
SecondExactArgs == {SecondN, SecondN + 1}
DayRangeArgs == {DayN + 1, DayN + 2}
HourRangeArgs == {10, HourN, HourN + 1}
MinuteRangeArgs == {MinuteN, MinuteN + 1}
SecondRangeArgs == {SecondN, SecondN + 1}
StepArgs == {0, 1, 7}

\* What the last call was given and how it ended: "Ok" (a Schedule came back),
\* "Err" (Err(Error) came back), "Panic" (unreachable!() was hit) or "NoneArg"
\* (NonZeroU8::new gave None for an argument, so there was nothing to call with).
Record(op, kind, unit, arg, outcome) ==
    [op |-> op, kind |-> kind, unit |-> unit, arg |-> arg, outcome |-> outcome]

Constructed(op, result) ==
    /\ sched' = result
    /\ call' = Record(op, "new", "all", <<>>, "Ok")
    /\ UNCHANGED <<fieldVars, occVars, mergeVars, schedVars, packVars, bufVars>>

Infallible(op, kind, unit, arg, result) ==
    /\ IF result = Unreachable
       THEN call' = Record(op, kind, unit, arg, "Panic") /\ UNCHANGED sched
       ELSE call' = Record(op, kind, unit, arg, "Ok") /\ sched' = result
    /\ UNCHANGED <<fieldVars, occVars, mergeVars, schedVars, packVars, bufVars>>

Fallible(op, kind, unit, arg, result) ==
    /\ IF IsOk(result)
       THEN call' = Record(op, kind, unit, arg, "Ok") /\ sched' = Unwrap(result)
       ELSE call' = Record(op, kind, unit, arg, "Err") /\ UNCHANGED sched
    /\ UNCHANGED <<fieldVars, occVars, mergeVars, schedVars, packVars, bufVars>>

NoneArg(op, kind, unit, arg) ==
    /\ call' = Record(op, kind, unit, arg, "NoneArg")
    /\ UNCHANGED <<sched, fieldVars, occVars, mergeVars, schedVars, packVars, bufVars>>

InitBuild ==
    /\ sched = new_every_second
    /\ call = Record("new_every_second", "new", "all", <<>>, "Ok")
    /\ IdleField
    /\ IdlePack
    /\ IdleBuf
    /\ IdleOcc
    /\ IdleMerge
    /\ IdleSched

NewEverySecond == Constructed("new_every_second", new_every_second)
NewEveryMinute == Constructed("new_every_minute", new_every_minute)
NewEveryHour == Constructed("new_every_hour", new_every_hour)
NewEveryDay == Constructed("new_every_day", new_every_day)
NewEveryMonth == Constructed("new_every_month", new_every_month)

AtDay ==
    \E raw \in DayExactArgs :
        IF IsSome(NonZeroU8New(raw))
        THEN Infallible("at_day", "exact", "day", <<raw>>, at_day(sched, raw))
        ELSE NoneArg("at_day", "exact", "day", <<raw>>)

AtFirstDay == Infallible("at_first_day", "zero", "day", <<>>, at_first_day(sched))

AtEveryDay == Infallible("at_every_day", "every", "day", <<>>, at_every_day(sched))

AtEveryNthDay ==
    \E raw \in StepArgs :
        IF IsSome(NonZeroU8New(raw))
        THEN Infallible("at_every_nth_day", "every", "day", <<raw>>,
                        at_every_nth_day(sched, raw))
        ELSE NoneArg("at_every_nth_day", "every", "day", <<raw>>)

\* The range is of NonZeroU8 days; arg records the 0-based bounds handed on to
\* Component::between.
AtEveryDayBetween ==
    \E lo \in DayRangeArgs, hi \in DayRangeArgs :
        Fallible("at_every_day_between", "range", "day",
                 <<lo - 1, hi - 1, 1>>, at_every_day_between(sched, <<lo, hi>>))

AtEveryNthDayBetween ==
    \E lo \in DayRangeArgs, hi \in DayRangeArgs, raw \in StepArgs :
        IF IsSome(NonZeroU8New(raw))
        THEN Fallible("at_every_nth_day_between", "range", "day",
                      <<lo - 1, hi - 1, raw>>,
                      at_every_nth_day_between(sched, <<lo, hi>>, raw))
        ELSE NoneArg("at_every_nth_day_between", "range", "day", <<lo - 1, hi - 1, raw>>)

AtHour ==
    \E raw \in HourExactArgs :
        Infallible("at_hour", "exact", "hour", <<raw>>, at_hour(sched, raw))

AtZeroHour == Infallible("at_zero_hour", "zero", "hour", <<>>, at_zero_hour(sched))

AtEveryHour == Infallible("at_every_hour", "every", "hour", <<>>, at_every_hour(sched))

AtEveryNthHour ==
    \E raw \in StepArgs :
        IF IsSome(NonZeroU8New(raw))
        THEN Infallible("at_every_nth_hour", "every", "hour", <<raw>>,
                        at_every_nth_hour(sched, raw))
        ELSE NoneArg("at_every_nth_hour", "every", "hour", <<raw>>)

AtEveryHourBetween ==
    \E lo \in HourRangeArgs, hi \in HourRangeArgs :
        Fallible("at_every_hour_between", "range", "hour",
                 <<lo, hi, 1>>, at_every_hour_between(sched, <<lo, hi>>))

AtEveryNthHourBetween ==
    \E lo \in HourRangeArgs, hi \in HourRangeArgs, raw \in StepArgs :
        IF IsSome(NonZeroU8New(raw))
        THEN Fallible("at_every_nth_hour_between", "range", "hour",
                      <<lo, hi, raw>>,
                      at_every_nth_hour_between(sched, <<lo, hi>>, raw))
        ELSE NoneArg("at_every_nth_hour_between", "range", "hour", <<lo, hi, raw>>)

AtMinute ==
    \E raw \in MinuteExactArgs :
        Infallible("at_minute", "exact", "minute", <<raw>>, at_minute(sched, raw))

AtZeroMinute == Infallible("at_zero_minute", "zero", "minute", <<>>, at_zero_minute(sched))

AtEveryMinute == Infallible("at_every_minute", "every", "minute", <<>>, at_every_minute(sched))

AtEveryNthMinute ==
    \E raw \in StepArgs :
        IF IsSome(NonZeroU8New(raw))
        THEN Infallible("at_every_nth_minute", "every", "minute", <<raw>>,
                        at_every_nth_minute(sched, raw))
        ELSE NoneArg("at_every_nth_minute", "every", "minute", <<raw>>)

AtEveryMinuteBetween ==
    \E lo \in MinuteRangeArgs, hi \in MinuteRangeArgs :
        Fallible("at_every_minute_between", "range", "minute",
                 <<lo, hi, 1>>, at_every_minute_between(sched, <<lo, hi>>))

AtEveryNthMinuteBetween ==
    \E lo \in MinuteRangeArgs, hi \in MinuteRangeArgs, raw \in StepArgs :
        IF IsSome(NonZeroU8New(raw))
        THEN Fallible("at_every_nth_minute_between", "range", "minute",
                      <<lo, hi, raw>>,
                      at_every_nth_minute_between(sched, <<lo, hi>>, raw))
        ELSE NoneArg("at_every_nth_minute_between", "range", "minute", <<lo, hi, raw>>)

AtSecond ==
    \E raw \in SecondExactArgs :
        Infallible("at_second", "exact", "second", <<raw>>, at_second(sched, raw))

AtZeroSecond == Infallible("at_zero_second", "zero", "second", <<>>, at_zero_second(sched))

AtEverySecond == Infallible("at_every_second", "every", "second", <<>>, at_every_second(sched))

AtEveryNthSecond ==
    \E raw \in StepArgs :
        IF IsSome(NonZeroU8New(raw))
        THEN Infallible("at_every_nth_second", "every", "second", <<raw>>,
                        at_every_nth_second(sched, raw))
        ELSE NoneArg("at_every_nth_second", "every", "second", <<raw>>)

AtEverySecondBetween ==
    \E lo \in SecondRangeArgs, hi \in SecondRangeArgs :
        Fallible("at_every_second_between", "range", "second",
                 <<lo, hi, 1>>, at_every_second_between(sched, <<lo, hi>>))

AtEveryNthSecondBetween ==
    \E lo \in SecondRangeArgs, hi \in SecondRangeArgs, raw \in StepArgs :
        IF IsSome(NonZeroU8New(raw))
        THEN Fallible("at_every_nth_second_between", "range", "second",
                      <<lo, hi, raw>>,
                      at_every_nth_second_between(sched, <<lo, hi>>, raw))
        ELSE NoneArg("at_every_nth_second_between", "range", "second", <<lo, hi, raw>>)

NextBuild ==
    \/ NewEverySecond \/ NewEveryMinute \/ NewEveryHour \/ NewEveryDay \/ NewEveryMonth
    \/ AtDay \/ AtFirstDay \/ AtEveryDay \/ AtEveryNthDay
    \/ AtEveryDayBetween \/ AtEveryNthDayBetween
    \/ AtHour \/ AtZeroHour \/ AtEveryHour \/ AtEveryNthHour
    \/ AtEveryHourBetween \/ AtEveryNthHourBetween
    \/ AtMinute \/ AtZeroMinute \/ AtEveryMinute \/ AtEveryNthMinute
    \/ AtEveryMinuteBetween \/ AtEveryNthMinuteBetween
    \/ AtSecond \/ AtZeroSecond \/ AtEverySecond \/ AtEveryNthSecond
    \/ AtEverySecondBetween \/ AtEveryNthSecondBetween

SpecBuild == InitBuild /\ [][NextBuild]_vars

\* The domain maximum of each unit's field.
DomainOf(unit) ==
    CASE unit = "day" -> DayN
      [] unit = "hour" -> HourN
      [] unit = "minute" -> MinuteN
      [] unit = "second" -> SecondN

Field(n, start, end, step) == [n |-> n, start |-> start, end |-> end, step |-> step]

\* The claim of C8 as written: a zero step is one of the three ways to get the
\* invalid-range error.
C8_OriginalStep ==
    call'.kind = "range" =>
        LET start == call'.arg[1]
            end == call'.arg[2]
            step == call'.arg[3]
            n == DomainOf(call'.unit)
        IN  IF start > end \/ end > n \/ step = 0
            THEN call'.outcome = "Err" /\ sched' = sched
            ELSE /\ call'.outcome = "Ok"
                 /\ sched' = [sched EXCEPT ![call'.unit] = Field(n, start, end, step)]

C8_AmendedStep ==
    call'.kind = "range" =>
        LET start == call'.arg[1]
            end == call'.arg[2]
            step == call'.arg[3]
            n == DomainOf(call'.unit)
        IN  IF step = 0
            THEN call'.outcome = "NoneArg" /\ sched' = sched
            ELSE IF start > end \/ end > n
            THEN call'.outcome = "Err" /\ sched' = sched
            ELSE /\ call'.outcome = "Ok"
                 /\ sched' = [sched EXCEPT ![call'.unit] = Field(n, start, end, step)]

ExactAsked == IF call.unit = "day" THEN call.arg[1] - 1 ELSE call.arg[1]

\* The claim of C9 as written: the public exact setters fail on a value beyond
\* the domain.
C9_Original ==
    (call.kind = "exact" /\ call.outcome # "NoneArg") =>
        LET n == DomainOf(call.unit)
        IN  IF ExactAsked <= n
            THEN /\ call.outcome = "Ok"
                 /\ sched[call.unit] = Field(n, ExactAsked, ExactAsked, 1)
            ELSE call.outcome = "Err"

\* C9 (amended): Component::exactly(v) is the field matching only v (start = end
\* = v, step = 1) when v is inside the domain and the invalid-range error when it
\* is not; the public at_day, at_hour, at_minute and at_second never fail and
\* never panic, because they reduce the value modulo the domain size first and
\* store the exact field of the reduced value.
C9_ExactSetters ==
    (call.kind = "exact" /\ call.outcome # "NoneArg") =>
        LET n == DomainOf(call.unit)
            reduced == ExactAsked % (n + 1)
        IN  /\ call.outcome = "Ok"
            /\ sched[call.unit] = Field(n, reduced, reduced, 1)
            /\ exactly(n, ExactAsked) =
                   (IF ExactAsked <= n THEN Ok(Field(n, ExactAsked, ExactAsked, 1)) ELSE Err)

\* An exact setter was given a value beyond its domain and returned a Schedule.
C9_Witness ==
    /\ call.kind = "exact"
    /\ call.outcome = "Ok"
    /\ ExactAsked > DomainOf(call.unit)

IsComponent(c) == DOMAIN c = {"n", "start", "end", "step"}

\* C10: every field of every Schedule built by the public constructors and
\* builder methods has start <= end <= domain maximum and step >= 1.
C10_FieldInvariant ==
    \A unit \in {"day", "hour", "minute", "second"} :
        /\ IsComponent(sched[unit])
        /\ sched[unit].start <= sched[unit].end
        /\ sched[unit].end <= DomainOf(unit)
        /\ sched[unit].step >= 1

\* A Schedule holding a stepped hour range up to the domain maximum and the last
\* day of the domain.
C10_Witness ==
    /\ sched.hour = Field(HourN, 10, HourN, 7)
    /\ sched.day = Field(DayN, DayN, DayN, 1)
    /\ sched.second.step = 7

----------------------------------------------------------------------------
(* Spec: next_occurrence on constructed schedules                          *)

\* The day, hour, minute and second settings the schedules under test are built
\* from, each through the public builder methods.
DaySetting(self, i) ==
    CASE i = 1 -> at_every_day(self)
      [] i = 2 -> at_day(self, 4)
      [] i = 3 -> at_day(self, 29)
      [] i = 4 -> at_day(self, 31)
      [] i = 5 -> Unwrap(at_every_nth_day_between(self, <<10, 31>>, 7))
      [] i = 6 -> Unwrap(at_every_day_between(self, <<29, 31>>))

HourSetting(self, i) ==
    CASE i = 1 -> at_every_hour(self)
      [] i = 2 -> at_hour(self, 11)
      [] i = 3 -> Unwrap(at_every_nth_hour_between(self, <<1, 20>>, 7))

MinuteSetting(self, i) ==
    CASE i = 1 -> at_every_minute(self)
      [] i = 2 -> at_minute(self, 16)
      [] i = 3 -> at_every_nth_minute(self, 25)

SecondSetting(self, i) ==
    CASE i = 1 -> at_every_second(self)
      [] i = 2 -> at_second(self, 41)
      [] i = 3 -> at_every_nth_second(self, 7)

\* The schedule built from the d-th day, h-th hour, m-th minute and s-th second
\* setting.
Built(d, h, m, s) ==
    SecondSetting(MinuteSetting(HourSetting(DaySetting(new_every_second, d), h), m), s)

\* Sub-second parts of the instants under test, in nanoseconds.
MaxNano == 1

\* Year and month of the instants under test: a 31-day month, February of a
\* common and of a leap year, a 30-day month and December.
YearMonths == {<<2022, 1>>, <<2022, 2>>, <<2024, 2>>, <<2022, 4>>, <<2022, 12>>}
DayArgs == {4, 10, 28, 29, 30, 31}
HourArgs == {0, 11, 23}
MinuteArgs == {16, 59}
SecondArgs == {14, 41, 59}

Init ==
    /\ \E d \in 1..6, h \in 1..3, m \in 1..3, s \in 1..3 : pattern = Built(d, h, m, s)
    /\ \E ym \in YearMonths, d \in DayArgs, h \in HourArgs, mi \in MinuteArgs,
          sec \in SecondArgs, ns \in 0..MaxNano :
           /\ d <= days_in_month(ym[1], ym[2])
           /\ now = DateTime(ym[1], ym[2], d, h, mi, sec, ns)
    /\ occ = NotCalled
    /\ IdleField
    /\ IdlePack
    /\ IdleBuf
    /\ IdleBuild
    /\ IdleMerge
    /\ IdleSched

\* pattern.next_occurrence(now)
NextOccurrence ==
    /\ occ = NotCalled
    /\ occ' = [op |-> "next_occurrence", res |-> next_occurrence(pattern, now),
               again |-> None]
    /\ UNCHANGED <<pattern, now, fieldVars, buildVars, mergeVars, schedVars, packVars, bufVars>>

\* pattern.next_occurrence(the instant just returned)
NextOccurrenceAgain ==
    /\ occ.op = "next_occurrence"
    /\ occ.again = None
    /\ ~IsPanic(occ.res)
    /\ occ' = [occ EXCEPT !.again = Some(next_occurrence(pattern, occ.res))]
    /\ UNCHANGED <<pattern, now, fieldVars, buildVars, mergeVars, schedVars, packVars, bufVars>>

Next == NextOccurrence \/ NextOccurrenceAgain

Spec == Init /\ [][Next]_vars

\* The instant satisfies the schedule: its 0-based day of month, hour, minute
\* and second each lie in the value set of their field.
Matches(p, t) ==
    /\ (t.day - 1) \in Values(p.day)
    /\ t.hour \in Values(p.hour)
    /\ t.minute \in Values(p.minute)
    /\ t.second \in Values(p.second)

Returned == occ.op = "next_occurrence"

\* The first whole second at or after an instant, as seconds since the epoch.
CeilSeconds(t) == timestamp(t) + (IF t.nano > 0 THEN 1 ELSE 0)

\* The months from a's to b's, <<year, month>>.
MonthsFromTo(a, b) ==
    { ym \in (a.year..b.year) \X (1..12) :
        /\ a.year * 12 + a.month <= ym[1] * 12 + ym[2]
        /\ ym[1] * 12 + ym[2] <= b.year * 12 + b.month }

\* Some whole second in lo..hi (seconds since the epoch), of a month of yms,
\* satisfies p. A search over every day, hour, minute and second of the value
\* sets; a day, hour or minute that lies wholly outside lo..hi is passed over.
MatchWithin(p, yms, lo, hi) ==
    \E ym \in yms :
        LET first == days_from_civil(ym[1], ym[2], 1)
            len == days_in_month(ym[1], ym[2])
        IN  \E d0 \in Values(p.day) :
                /\ d0 < len
                /\ (first + d0) * 86400 + 86399 >= lo
                /\ (first + d0) * 86400 <= hi
                /\ \E h \in Values(p.hour) :
                       LET hs == (first + d0) * 86400 + h * 3600
                       IN  /\ hs + 3599 >= lo
                           /\ hs <= hi
                           /\ \E mi \in Values(p.minute) :
                                  /\ hs + mi * 60 + 59 >= lo
                                  /\ hs + mi * 60 <= hi
                                  /\ \E sec \in Values(p.second) :
                                         /\ hs + mi * 60 + sec >= lo
                                         /\ hs + mi * 60 + sec <= hi

\* C1: next_occurrence(t) is the smallest matching instant at or after t: no
\* whole-second instant u with t <= u < next_occurrence(t) satisfies the schedule.
C1_NoEarlierMatch ==
    Returned =>
        /\ ~IsPanic(occ.res)
        /\ ~MatchWithin(pattern, MonthsFromTo(now, occ.res),
                        CeilSeconds(now), CeilSeconds(occ.res) - 1)

\* A result two months on: a day-29..31 schedule asked in January after its
\* last day has passed skips the whole of February 2022.
C1_Witness ==
    /\ Returned
    /\ now.year = 2022 /\ now.month = 1
    /\ pattern.day.start = 28
    /\ occ.res.month = 3

\* C2: the instant returned satisfies the schedule in all four fields.
C2_ResultMatches ==
    Returned => (~IsPanic(occ.res) /\ Matches(pattern, occ.res))

\* A result moved on to the next stepped day, at the least stepped hour.
C2_Witness ==
    /\ Returned
    /\ pattern.day.step = 7 /\ pattern.hour.step = 7 /\ pattern.second.step = 7
    /\ occ.res.day = 17 /\ occ.res.hour = 1 /\ occ.res.second = 0
    /\ occ.res # now

\* C3: next_occurrence(now) >= now, whatever the sub-second part of now.
C3_NotBeforeNow ==
    Returned => (~IsPanic(occ.res) /\ ~Before(occ.res, now))

\* A carry out of the last second of a year, from an instant with a sub-second
\* part.
C3_Witness ==
    /\ Returned
    /\ now.nano > 0
    /\ occ.res.year = now.year + 1
    /\ Before(now, occ.res)

\* C4: an instant that already matches is returned unchanged, sub-second part
\* included; the all-'every' schedule returns its input; and applying
\* next_occurrence to its own result returns that result.
C4_IdempotentOnMatch ==
    Returned =>
        /\ ~IsPanic(occ.res)
        /\ (Matches(pattern, now) => occ.res = now)
        /\ (pattern = new_every_second => occ.res = now)
        /\ (IsSome(occ.again) => Unwrap(occ.again) = occ.res)

\* A matching instant with a sub-second part came back unchanged, and a moved
\* one came back unchanged from the second call.
C4_Witness ==
    /\ Returned
    /\ IsSome(occ.again)
    /\ pattern.minute.step = 25
    /\ \/ Matches(pattern, now) /\ now.nano > 0 /\ pattern.second.start = 41
       \/ occ.res # now /\ pattern.second.step = 7

\* The first month after <<year, month>> long enough to hold the 0-based day d0,
\* found by looking over the next twelve months.
FirstMonthHolding(d0, year, month) ==
    LET at(k) == <<year + (month - 1 + k) \div 12, ((month - 1 + k) % 12) + 1>>
        fits == { k \in 1..12 : d0 < days_in_month(at(k)[1], at(k)[2]) }
    IN  at(SetMin(fits))

\* The year and month the result must have, reckoned from the instant `from`:
\* from's own when the day field's least value at or after from's day is a day
\* of from's month, else the first later month holding the field's minimum.
MonthDue(p, from) ==
    LET target == min_value_bounded(p.day, from.day - 1)
    IN  IF IsSome(target) /\ Unwrap(target) < days_in_month(from.year, from.month)
        THEN <<from.year, from.month>>
        ELSE FirstMonthHolding(min_value(p.day), from.year, from.month)

\* The claim of C5 as written: the current month is the month of the input.
C5_Original ==
    Returned =>
        (~IsPanic(occ.res) /\ <<occ.res.year, occ.res.month>> = MonthDue(pattern, now))

\* C5 (amended): no skipped day, with the current month being that of the instant
\* the cascade has reached once hour, minute and second are resolved (the input's
\* month unless that carry went past the end of the month): if the day field's
\* target is a day of that month the result has its year and month, otherwise
\* the result's month is the first later month whose day count accommodates the
\* day field's minimum.
C5_NoSkippedDay ==
    Returned =>
        /\ ~IsPanic(occ.res)
        /\ <<occ.res.year, occ.res.month>> = MonthDue(pattern, advance_to_hms(pattern, now))

\* Day 29 asked on 10 February: 29 February in the leap year, 29 March in the
\* common year; or day 31 asked in April, giving May.
C5_Witness ==
    /\ Returned
    /\ \/ /\ now.month = 2 /\ now.day = 10 /\ pattern.day.start = 28
          /\ \/ now.year = 2024 /\ occ.res.month = 2 /\ occ.res.day = 29
             \/ now.year = 2022 /\ occ.res.month = 3 /\ occ.res.day = 29
       \/ now.month = 4 /\ pattern.day.start = 30 /\ occ.res.month = 5

\* An instant of the calendar: every field in range and the day one of the
\* month's.
ValidInstant(t) ==
    /\ ~IsPanic(t)
    /\ t.month \in 1..12
    /\ t.day \in 1..days_in_month(t.year, t.month)
    /\ t.hour \in 0..23 /\ t.minute \in 0..59 /\ t.second \in 0..59

\* C11: next_occurrence is total: from every constructed schedule and every
\* instant it returns an instant (no "invalid time" failure, no unending month
\* search) whose day is a day of its month and whose hour, minute and second
\* are in range; so is the result of calling it again on what it returned.
C11_NoInvalidTime ==
    Returned =>
        /\ ValidInstant(occ.res)
        /\ IsSome(occ.again) => ValidInstant(Unwrap(occ.again))

\* The target day is not a day of the month reached (day 30 or 31 asked in
\* February) and is set in March instead.
C11_Witness ==
    /\ Returned
    /\ now.month = 2
    /\ pattern.day.start >= 29
    /\ occ.res.month = 3
    /\ occ.res.day = pattern.day.start + 1

----------------------------------------------------------------------------
(* Schedules, the set of schedules of a task (schedules.rs, task.rs)       *)

\* Schedules::from_vec: one schedule is stored inline, any other number boxed.
from_vec(v) ==
    IF Len(v) = 1
    THEN [kind |-> "One", schedule |-> v[1]]
    ELSE [kind |-> "Many", schedules |-> v]

\* `.map(|schedule| schedule.next_occurrence(now))` over the boxed slice.
Occurrences(v, nowArg) == [i \in DOMAIN v |-> next_occurrence(v[i], nowArg)]

\* Iterator::min over instants: None when there is none, else the first least.
IterFirst(xs) == IF xs = <<>> THEN None ELSE Some(xs[1])
IterMin(xs) ==
    IF xs = <<>>
    THEN None
    ELSE Some(xs[SetMin({ i \in DOMAIN xs : \A j \in DOMAIN xs : AtOrBefore(xs[i], xs[j]) })])

\* A panic of the mapped closure unwinds out of the whole call.
MinOrUnwind(xs) ==
    IF \E i \in DOMAIN xs : IsPanic(xs[i]) THEN InvalidTime ELSE IterMin(xs)

SomeOrUnwind(t) == IF IsPanic(t) THEN t ELSE Some(t)

\* Schedules::next_occurrence
SchedulesNextOccurrenceOrNow(self, nowArg) ==
    IF self.kind = "One"
    THEN SomeOrUnwind(next_occurrence(self.schedule, nowArg))
    ELSE IF self.schedules = <<>> THEN Some(nowArg)
    ELSE MinOrUnwind(Occurrences(self.schedules, nowArg))
schedules_next_occurrence(self, nowArg) ==
    IF self.kind = "One"
    THEN SomeOrUnwind(next_occurrence(self.schedule, nowArg))
    ELSE MinOrUnwind(Occurrences(self.schedules, nowArg))

\* Builder::build: the task's Schedules.
build(v) == from_vec(v)

----------------------------------------------------------------------------
(* SpecMerge: a task's schedules are collected, built and asked            *)

\* Most schedules one builder is given.
MaxSchedules == 3

\* The schedules of schedules.rs's test, tt1 to tt7.
TestSchedule(i) ==
    CASE i = 1 -> at_second(at_minute(at_hour(new_every_day, 10), 30), 0)
      [] i = 2 -> at_day(new_every_second, 9)
      [] i = 3 -> at_second(at_minute(new_every_second, 5), 0)
      [] i = 4 -> at_second(new_every_second, 15)
      [] i = 5 -> at_second(at_minute(at_hour(at_day(new_every_second, 11), 10), 15), 0)
      [] i = 6 -> at_second(at_hour(new_every_second, 12), 40)
      [] i = 7 -> at_second(at_day(new_every_second, 31), 0)

TestSchedules == 1..7

\* The instants of the test, and one just before the end of a month.
TestInstants ==
    { DateTime(2022, 4, 4, 18, 1, 14, 0), DateTime(2022, 5, 31, 18, 1, 14, 0),
      DateTime(2022, 4, 9, 18, 1, 14, 0), DateTime(2022, 2, 28, 23, 59, 59, 1) }

\* Builder::new
InitMerge ==
    /\ times = <<>>
    /\ schedules = NotCalled
    /\ instant \in TestInstants
    /\ merged = NotCalled
    /\ IdleField
    /\ IdlePack
    /\ IdleBuf
    /\ IdleBuild
    /\ IdleOcc
    /\ IdleSched

\* Builder::at
BuilderAt ==
    \E i \in TestSchedules :
        /\ schedules = NotCalled
        /\ Len(times) < MaxSchedules
        /\ times' = Append(times, TestSchedule(i))
        /\ UNCHANGED <<schedules, instant, merged, fieldVars, buildVars, occVars, schedVars, packVars, bufVars>>

\* Builder::at_several
BuilderAtSeveral ==
    \E i \in TestSchedules, j \in TestSchedules :
        /\ schedules = NotCalled
        /\ Len(times) + 2 <= MaxSchedules
        /\ times' = times \o <<TestSchedule(i), TestSchedule(j)>>
        /\ UNCHANGED <<schedules, instant, merged, fieldVars, buildVars, occVars, schedVars, packVars, bufVars>>

\* Builder::build
Build ==
    /\ schedules = NotCalled
    /\ schedules' = build(times)
    /\ UNCHANGED <<times, instant, merged, fieldVars, buildVars, occVars, schedVars, packVars, bufVars>>

\* task.schedule().next_occurrence(instant)
SchedulesNextOccurrence ==
    /\ schedules # NotCalled
    /\ merged = NotCalled
    /\ merged' = [op |-> "next_occurrence", res |-> schedules_next_occurrence(schedules, instant)]
    /\ UNCHANGED <<times, schedules, instant, fieldVars, buildVars, occVars, schedVars, packVars, bufVars>>

NextMerge == BuilderAt \/ BuilderAtSeveral \/ Build \/ SchedulesNextOccurrence

SpecMerge == InitMerge /\ [][NextMerge]_vars

Merged == merged # NotCalled

\* Each schedule's own next occurrence from the instant asked.
OwnOccurrences == { next_occurrence(times[i], instant) : i \in DOMAIN times }

\* C12: for a set of one or more schedules, next_occurrence is the least of the
\* schedules' own next occurrences from the same instant; for a single schedule
\* it is exactly that schedule's, stored inline (One) or as a sequence (Many).
C12_MergeIsMinimum ==
    (Merged /\ times # <<>>) =>
        /\ IsSome(merged.res)
        /\ Unwrap(merged.res) \in OwnOccurrences
        /\ \A t \in OwnOccurrences : AtOrBefore(Unwrap(merged.res), t)
        /\ Len(times) = 1 =>
              /\ schedules.kind = "One"
              /\ merged.res = Some(next_occurrence(times[1], instant))
              /\ merged.res =
                    schedules_next_occurrence([kind |-> "Many", schedules |-> times], instant)

\* Three schedules, and the result is the last one's, strictly before the first's.
C12_Witness ==
    /\ Merged
    /\ Len(times) = 3
    /\ merged.res = Some(next_occurrence(times[3], instant))
    /\ Before(next_occurrence(times[3], instant), next_occurrence(times[1], instant))
    /\ Before(next_occurrence(times[3], instant), next_occurrence(times[2], instant))

\* C13: Schedules::next_occurrence returns no occurrence exactly when the set
\* holds no schedule (a task built with none); every other set yields an instant.
C13_NoneIffEmpty ==
    Merged =>
        /\ merged.res = None <=> times = <<>>
        /\ times # <<>> => (IsSome(merged.res) /\ ValidInstant(Unwrap(merged.res)))

\* A task built without a schedule is asked and has no occurrence.
C13_Witness ==
    /\ Merged
    /\ times = <<>>
    /\ schedules = [kind |-> "Many", schedules |-> <<>>]
    /\ merged.res = None

----------------------------------------------------------------------------
(* ManualSleep and Scheduler, the task registry (scheduler.rs)             *)

\* A task: its id and the Schedules its builder made.
Task(id, schedule) == [id |-> id, schedule |-> schedule]

\* TaskEntry::new
TaskEntryNew(task) == [id |-> task.id, schedule |-> task.schedule, next_time |-> None]

\* TaskEntry::update_next_time
UpdateNextTimeKeepingCached(entry, nowArg) ==
    IF IsSome(entry.next_time)
    THEN entry
    ELSE [entry EXCEPT !.next_time = schedules_next_occurrence(entry.schedule, nowArg)]
UpdateNextTimeKeepingStale(entry, nowArg) ==
    IF IsSome(entry.next_time) /\ Before(Unwrap(entry.next_time), nowArg)
    THEN entry
    ELSE [entry EXCEPT !.next_time = schedules_next_occurrence(entry.schedule, nowArg)]
update_next_time(entry, nowArg) ==
    IF IsSome(entry.next_time) /\ Before(nowArg, Unwrap(entry.next_time))
    THEN entry
    ELSE [entry EXCEPT !.next_time = schedules_next_occurrence(entry.schedule, nowArg)]

\* ManualSleep::new
ManualSleepNew == [tasks |-> <<>>, next_ids_buf |-> <<>>, previous_time |-> None]

\* `self.tasks.retain(|entry| entry.task.id() != id)`
Retain(entries, id) ==
    LET kept(entry) == entry.id # id
    IN  SelectSeq(entries, kept)

\* ManualSleep::remove: the scheduler afterwards and the value returned.
remove(self, id) ==
    [self |-> [self EXCEPT !.tasks = Retain(self.tasks, id)],
     ret |-> Len(Retain(self.tasks, id)) # Len(self.tasks)]

\* ManualSleep::contains
ContainsFirst(self, id) == self.tasks # <<>> /\ self.tasks[1].id = id
contains(self, id) == \E i \in DOMAIN self.tasks : self.tasks[i].id = id

\* `self.tasks.push(TaskEntry::new(task))` once `self.remove(task.id())` is done.
Push(removal, task) ==
    [self |-> [removal.self EXCEPT !.tasks = Append(@, TaskEntryNew(task))],
     ret |-> removal.ret]

\* ManualSleep::insert
InsertKeepingOld(self, task) == Push([self |-> self, ret |-> contains(self, task.id)], task)
insert(self, task) == Push(remove(self, task.id), task)

\* next_second: one second on, then the start of that second.
WholeSecond(time) ==
    ymd_and_hms(time.year, time.month, time.day, time.hour, time.minute, time.second)
NextSecondSame(time) == WholeSecond(time)
next_second(time) == WholeSecond(AddSeconds(time, 1))

\* Ord::max on instants.
DateTimeMin(a, b) == IF Before(b, a) THEN b ELSE a
DateTimeMax(a, b) == IF Before(b, a) THEN a ELSE b

\* `min_next_time`: the lower bound a recomputing call of next works from.
MinNextTimeFromClock(previous, nowArg) == next_second(nowArg)
MinNextTime(previous, nowArg) ==
    IF IsSome(previous)
    THEN next_second(DateTimeMax(nowArg, Unwrap(previous)))
    ELSE next_second(nowArg)

\* `entry.update_next_time(min_next_time)` on every entry, as min() drives the
\* iterator to its end.
UpdatedTasksFirstOnly(entries, min_next_time) ==
    [i \in DOMAIN entries |->
        IF i = 1 THEN update_next_time(entries[i], min_next_time) ELSE entries[i]]
UpdatedTasks(entries, min_next_time) ==
    [i \in DOMAIN entries |-> update_next_time(entries[i], min_next_time)]

\* `filter_map(|entry| entry.next_time)`: the cached times there are, in order.
NextTimes(entries) ==
    LET cached(entry) == IsSome(entry.next_time)
        having == SelectSeq(entries, cached)
    IN  [i \in DOMAIN having |-> Unwrap(having[i].next_time)]

\* `next_ids_iter`: the ids of the entries whose next_time is the soonest.
NextIdsFrom(entries, next_time) ==
    LET due(entry) == IsSome(entry.next_time) /\ ~Before(Unwrap(entry.next_time), next_time)
        having == SelectSeq(entries, due)
    IN  [i \in DOMAIN having |-> having[i].id]
NextIdsReversed(entries, next_time) ==
    LET due(entry) == entry.next_time = Some(next_time)
        having == SelectSeq(entries, due)
    IN  [i \in DOMAIN having |-> having[Len(having) + 1 - i].id]
NextIds(entries, next_time) ==
    LET due(entry) == entry.next_time = Some(next_time)
        having == SelectSeq(entries, due)
    IN  [i \in DOMAIN having |-> having[i].id]

\* What a call of ManualSleep::next leaves: the scheduler afterwards, the item
\* returned and the number of times the clock was read.
Outcome(self, ret, reads) == [self |-> self, ret |-> ret, reads |-> reads]

\* The end of next, once next_time is stored in previous_time: the first due id
\* is returned with next_time and the others are put in next_ids_buf.
EmitAll(self, next_time, ids) ==
    IF ids = <<>>
    THEN Outcome(self, None, 1)
    ELSE Outcome([self EXCEPT !.next_ids_buf = @ \o ids],
                 Some(<<ids[1], Some(next_time)>>), 1)
EmitWithoutTime(self, next_time, ids) ==
    IF ids = <<>>
    THEN Outcome(self, None, 1)
    ELSE Outcome([self EXCEPT !.next_ids_buf = @ \o Tail(ids)], Some(<<ids[1], None>>), 1)
Emit(self, next_time, ids) ==
    IF ids = <<>>
    THEN Outcome(self, None, 1)
    ELSE Outcome([self EXCEPT !.next_ids_buf = @ \o Tail(ids)],
                 Some(<<ids[1], Some(next_time)>>), 1)

\* `.min()?` and `self.previous_time = Some(next_time)`.
SelectStoringFloor(self, min_next_time, soonest) ==
    IF soonest = None
    THEN Outcome([self EXCEPT !.previous_time = Some(min_next_time)], None, 1)
    ELSE Emit([self EXCEPT !.previous_time = soonest],
              Unwrap(soonest), NextIds(self.tasks, Unwrap(soonest)))
Select(self, min_next_time, soonest) ==
    IF soonest = None
    THEN Outcome(self, None, 1)
    ELSE Emit([self EXCEPT !.previous_time = soonest],
              Unwrap(soonest), NextIds(self.tasks, Unwrap(soonest)))

\* The recomputing part of next, with the entries already updated.
Recompute(self, min_next_time) ==
    Select(self, min_next_time, IterMin(NextTimes(self.tasks)))

\* `self.next_ids_buf.pop()` when there is an id to pop: the clock is not read.
PopAndRead(self) ==
    Outcome([self EXCEPT !.next_ids_buf = SubSeq(@, 1, Len(@) - 1)],
            Some(<<self.next_ids_buf[Len(self.next_ids_buf)], None>>), 1)
PopFront(self) ==
    Outcome([self EXCEPT !.next_ids_buf = Tail(@)], Some(<<self.next_ids_buf[1], None>>), 0)
Pop(self) ==
    Outcome([self EXCEPT !.next_ids_buf = SubSeq(@, 1, Len(@) - 1)],
            Some(<<self.next_ids_buf[Len(self.next_ids_buf)], None>>), 0)

\* next with an empty next_ids_buf, once min_next_time is worked out.
NextFrom(self, min_next_time) ==
    Recompute([self EXCEPT !.tasks = UpdatedTasks(@, min_next_time)], min_next_time)

\* ManualSleep::next, with the reading the clock gives if it is asked.
manual_sleep_next(self, clock) ==
    IF self.next_ids_buf # <<>>
    THEN Pop(self)
    ELSE NextFrom(self, MinNextTime(self.previous_time, clock))

\* A Duration as <<seconds, nanoseconds>>; `to_std().unwrap_or(ZERO)` of b - a.
ZeroDuration == <<0, 0>>
SleepDurationWholeSeconds(sleep_until, nowArg) ==
    IF ~Before(nowArg, sleep_until)
    THEN ZeroDuration
    ELSE IF sleep_until.nano >= nowArg.nano
    THEN <<timestamp(sleep_until) - timestamp(nowArg), 0>>
    ELSE <<timestamp(sleep_until) - timestamp(nowArg) - 1, 0>>
sleep_duration(sleep_until, nowArg) ==
    IF ~Before(nowArg, sleep_until)
    THEN ZeroDuration
    ELSE IF sleep_until.nano >= nowArg.nano
    THEN <<timestamp(sleep_until) - timestamp(nowArg), sleep_until.nano - nowArg.nano>>
    ELSE <<timestamp(sleep_until) - timestamp(nowArg) - 1,
           1000000000 + sleep_until.nano - nowArg.nano>>

\* Scheduler::next after `self.inner.next()?`: the id is returned, after a
\* second reading of the clock and a sleep when a wake-up time came with it.
BlockingOnlyTimed(inner, clock) ==
    IF inner.ret = None \/ Unwrap(inner.ret)[2] = None
    THEN [self |-> inner.self, ret |-> None, reads |-> inner.reads, slept |-> ZeroDuration]
    ELSE [self |-> inner.self, ret |-> Some(Unwrap(inner.ret)[1]),
          reads |-> inner.reads + 1,
          slept |-> sleep_duration(Unwrap(Unwrap(inner.ret)[2]), clock)]
Blocking(inner, clock) ==
    IF inner.ret = None
    THEN [self |-> inner.self, ret |-> None, reads |-> inner.reads, slept |-> ZeroDuration]
    ELSE IF IsSome(Unwrap(inner.ret)[2])
    THEN [self |-> inner.self, ret |-> Some(Unwrap(inner.ret)[1]),
          reads |-> inner.reads + 1,
          slept |-> sleep_duration(Unwrap(Unwrap(inner.ret)[2]), clock)]
    ELSE [self |-> inner.self, ret |-> Some(Unwrap(inner.ret)[1]),
          reads |-> inner.reads, slept |-> ZeroDuration]

\* Scheduler::next, with the readings the clock gives if it is asked.
scheduler_next(self, clock, clock_after) ==
    Blocking(manual_sleep_next(self, clock), clock_after)

----------------------------------------------------------------------------
(* SpecSched: tasks are inserted and removed, and next is called           *)

\* Most calls of next in one behaviour.
MaxPulls == 3

\* Most calls of insert, remove and contains in one behaviour.
MaxEdits == 3

TaskIds == {1, 2, 3}

\* The Schedules of the tasks under test: none; every 25th second of a minute
\* (seconds 0, 25 and 50); seconds 50 and 1 of every minute, as two schedules.
TaskSchedules(i) ==
    CASE i = 1 -> build(<<>>)
      [] i = 2 -> build(<<at_every_nth_second(new_every_second, 25)>>)
      [] i = 3 -> build(<<at_second(new_every_second, 50), at_second(new_every_second, 1)>>)

TaskScheduleChoices == 1..3

\* What Tz::current_datetime() may give: either of these at any call, so the
\* clock may stand still or go back between two calls, and may be read before,
\* at or after the fire time last selected.
ClockReadings ==
    { DateTime(2022, 2, 28, 23, 59, 58, 1), DateTime(2022, 3, 1, 0, 0, 0, 0) }

\* The ManualSleep the variables hold.
Self == [tasks |-> tasks, next_ids_buf |-> next_ids_buf, previous_time |-> previous_time]

\* The variables take the scheduler an operation left.
Becomes(after) ==
    /\ tasks' = after.tasks
    /\ next_ids_buf' = after.next_ids_buf
    /\ previous_time' = after.previous_time

\* ManualSleep::new / Scheduler::new
InitSched ==
    /\ tasks = ManualSleepNew.tasks
    /\ next_ids_buf = ManualSleepNew.next_ids_buf
    /\ previous_time = ManualSleepNew.previous_time
    /\ pull = NotCalled
    /\ batch = NotCalled
    /\ pulls = 0
    /\ edits = 0
    /\ IdleField
    /\ IdlePack
    /\ IdleBuf
    /\ IdleBuild
    /\ IdleOcc
    /\ IdleMerge

\* The record of a call of insert, remove or contains.
Edited(op, id, result) ==
    /\ Becomes(result.self)
    /\ pull' = [op |-> op, id |-> id, ret |-> result.ret, before |-> Self]
    /\ edits' = edits + 1
    /\ UNCHANGED <<batch, pulls, fieldVars, buildVars, occVars, mergeVars, packVars, bufVars>>

\* insert(task) (and `with`, which is insert on a scheduler passed by value)
Insert ==
    /\ edits < MaxEdits
    /\ \E id \in TaskIds, i \in TaskScheduleChoices :
        \E result \in {insert(Self, Task(id, TaskSchedules(i)))} :
            Edited("insert", id, result)

\* remove(id)
Remove ==
    /\ edits < MaxEdits
    /\ \E id \in TaskIds :
        \E result \in {remove(Self, id)} : Edited("remove", id, result)

\* contains(id)
Contains ==
    /\ edits < MaxEdits
    /\ \E id \in TaskIds :
        Edited("contains", id, [self |-> Self, ret |-> contains(Self, id)])

\* The fire time last selected, the ids of the entries due at it when it was
\* selected (as a set, and in the order of their entries), the ids returned
\* for it so far, and the fire time of the id returned before the last one.
BatchAfter(after, id, reads) ==
    IF reads = 0
    THEN [batch EXCEPT !.returned = Append(@, id), !.earlier = Some(batch.time)]
    ELSE [time |-> Unwrap(after.previous_time),
          earlier |-> IF batch = NotCalled THEN None ELSE Some(batch.time),
          ids |-> { after.tasks[i].id : i \in { j \in DOMAIN after.tasks :
                        after.tasks[j].next_time = after.previous_time } },
          order |-> NextIds(after.tasks, Unwrap(after.previous_time)),
          returned |-> <<id>>]

\* The record of a call of next: the scheduler before, the reading of the clock
\* if it was read, the lower bound worked from, the reading before the sleep
\* if there was one, and the id the call returned; for ManualSleep::next, the
\* item returned as well.
Pulled(blocking, clock, clock_after, outcome, id) ==
    /\ Becomes(outcome.self)
    /\ pull' = LET called ==
                       [op |-> "next", blocking |-> blocking, before |-> Self,
                        clock |-> IF outcome.reads > 0 THEN Some(clock) ELSE None,
                        min_next_time |-> IF outcome.reads > 0
                                          THEN Some(MinNextTime(previous_time, clock))
                                          ELSE None,
                        clock_after |-> IF outcome.reads > 1 THEN Some(clock_after) ELSE None,
                        id |-> id, reads |-> outcome.reads,
                        slept |-> IF blocking THEN outcome.slept ELSE ZeroDuration]
               IN  IF blocking THEN called ELSE called @@ [ret |-> outcome.ret]
    /\ batch' = IF IsSome(id) THEN BatchAfter(outcome.self, Unwrap(id), outcome.reads) ELSE batch
    /\ pulls' = pulls + 1
    /\ UNCHANGED <<edits, fieldVars, buildVars, occVars, mergeVars, packVars, bufVars>>

\* The id an item of ManualSleep carries.
ItemId(ret) == IF IsSome(ret) THEN Some(Unwrap(ret)[1]) ELSE None

PulledManual(clock, outcome) == Pulled(FALSE, clock, clock, outcome, ItemId(outcome.ret))

PulledBlocking(clock, clock_after, outcome) ==
    Pulled(TRUE, clock, clock_after, outcome, outcome.ret)

\* ManualSleep::next
ManualSleepNext ==
    /\ pulls < MaxPulls
    /\ \E clock \in ClockReadings :
        \E outcome \in {manual_sleep_next(Self, clock)} : PulledManual(clock, outcome)

\* Scheduler::next: `self.inner.next()?` with one reading of the clock, the rest
\* with another.
SchedulerNext ==
    /\ pulls < MaxPulls
    /\ \E clock \in ClockReadings :
        \E inner \in {manual_sleep_next(Self, clock)} :
            \E clock_after \in ClockReadings :
                PulledBlocking(clock, clock_after, Blocking(inner, clock_after))

NextSched == Insert \/ Remove \/ Contains \/ ManualSleepNext \/ SchedulerNext

SpecSched == InitSched /\ [][NextSched]_vars

\* The last call was next; it found next_ids_buf empty; it selected a fire time.
IsPull == pull.op = "next"
Recomputed == IsPull /\ pull.before.next_ids_buf = <<>>
Selected == Recomputed /\ IsSome(pull.id)

SeqRange(q) == { q[i] : i \in DOMAIN q }
Distinct(q) == \A i \in DOMAIN q, j \in DOMAIN q : q[i] = q[j] => i = j

\* C14: whatever the clock gives (standing still, going back, or read before
\* the fire time is reached), the fire time a recomputing call of next selects
\* is strictly later than the one selected before it, and the ids returned for
\* one fire time are all different: no id is returned twice for one instant.
C14_FireTimesIncrease ==
    /\ (Selected /\ IsSome(pull.before.previous_time)) =>
           Before(Unwrap(pull.before.previous_time), Unwrap(previous_time))
    /\ batch # NotCalled => Distinct(batch.returned)

\* A fire time is selected with the clock reading behind the fire time
\* selected before.
C14_Witness ==
    /\ Selected
    /\ IsSome(pull.before.previous_time)
    /\ Before(Unwrap(pull.clock), Unwrap(pull.before.previous_time))
    /\ Before(Unwrap(pull.before.previous_time), batch.time)

\* C15: of two ids returned by successive calls of next, the later one's fire
\* time is not earlier than the earlier one's.
C15_FireTimesOrdered ==
    (batch # NotCalled /\ IsSome(batch.earlier)) =>
        AtOrBefore(Unwrap(batch.earlier), batch.time)

\* Two ids of a tie were returned, and then an id with a later fire time.
C15_Witness ==
    /\ pulls = 3
    /\ Selected
    /\ IsSome(batch.earlier)
    /\ pull.before.previous_time = batch.earlier
    /\ Before(Unwrap(batch.earlier), batch.time)
    /\ Len(tasks) >= 2

\* C16: while the ids tied at the selected fire time are being returned, the
\* ids returned are all different and all of the tie, and next_ids_buf holds
\* exactly the ids of the tie not yet returned; a later fire time is selected
\* only by a call that finds next_ids_buf empty, that is, after all k were
\* returned by k calls.
C16_TieReturnedOnce ==
    batch # NotCalled =>
        /\ Distinct(batch.returned)
        /\ SeqRange(batch.returned) \subseteq batch.ids
        /\ Distinct(next_ids_buf)
        /\ SeqRange(next_ids_buf) = batch.ids \ SeqRange(batch.returned)
        /\ Len(batch.returned) + Len(next_ids_buf) = Cardinality(batch.ids)
        /\ (IsPull /\ Len(batch.returned) = 1 /\ IsSome(pull.id)) =>
               pull.before.next_ids_buf = <<>>

\* Two or more tasks tied, and as many calls returned all of them.
C16_Witness ==
    /\ batch # NotCalled
    /\ Cardinality(batch.ids) >= 2
    /\ SeqRange(batch.returned) = batch.ids
    /\ next_ids_buf = <<>>
    /\ IsPull

C18_BufferedPull ==
    (IsPull /\ pull.before.next_ids_buf # <<>>) =>
        /\ pull.id = Some(pull.before.next_ids_buf[Len(pull.before.next_ids_buf)])
        /\ next_ids_buf = SubSeq(pull.before.next_ids_buf, 1, Len(pull.before.next_ids_buf) - 1)
        /\ pull.reads = 0
        /\ pull.clock = None
        /\ tasks = pull.before.tasks
        /\ previous_time = pull.before.previous_time
        /\ pull.slept = ZeroDuration
        /\ ~pull.blocking => pull.ret = Some(<<Unwrap(pull.id), None>>)

\* The second call of Scheduler::next after a tie of two returns the other id.
C18_Witness ==
    /\ IsPull
    /\ pull.blocking
    /\ pulls = 2
    /\ Len(pull.before.next_ids_buf) = 1
    /\ batch.returned = <<batch.returned[1], Unwrap(pull.id)>>
    /\ batch.returned[1] # Unwrap(pull.id)

\* The cached next_time values of a sequence of entries.
CachedTimes(entries) ==
    { Unwrap(entries[i].next_time) : i \in { j \in DOMAIN entries : IsSome(entries[j].next_time) } }

IdsDueAt(entries, time) ==
    { entries[i].id : i \in { j \in DOMAIN entries : entries[j].next_time = Some(time) } }

\* C19: a recomputing call of next with a candidate selects the least cached
\* next_time of all entries, stores it in previous_time, returns an id cached at
\* it, and leaves in next_ids_buf exactly the other ids cached at it.
C19_SelectsMinimum ==
    (Recomputed /\ CachedTimes(tasks) # {}) =>
        /\ Selected
        /\ IsSome(previous_time)
        /\ Unwrap(previous_time) \in CachedTimes(tasks)
        /\ \A t \in CachedTimes(tasks) : AtOrBefore(Unwrap(previous_time), t)
        /\ Unwrap(pull.id) \in IdsDueAt(tasks, Unwrap(previous_time))
        /\ SeqRange(next_ids_buf) = IdsDueAt(tasks, Unwrap(previous_time)) \ {Unwrap(pull.id)}
        /\ Distinct(next_ids_buf)
        /\ ~pull.blocking => pull.ret = Some(<<Unwrap(pull.id), previous_time>>)

\* Three entries: two tie at the least time and one is cached later.
C19_Witness ==
    /\ Selected
    /\ Len(tasks) = 3
    /\ Len(next_ids_buf) = 1
    /\ Cardinality(CachedTimes(tasks)) = 2

\* A Schedules with no schedule in it.
IsEmptySchedules(schedule) == schedule.kind = "Many" /\ schedule.schedules = <<>>

\* C20: with next_ids_buf empty, next returns None exactly when no registered
\* task has a schedule (none registered, or only ones built without a
\* schedule); that call leaves previous_time and next_ids_buf as they were.
\* As this holds of every call, a call made after a task with a schedule is
\* inserted returns an id, whatever was returned before.
C20_ExhaustedForNow ==
    Recomputed =>
        /\ pull.id = None <=>
               \A i \in DOMAIN pull.before.tasks : IsEmptySchedules(pull.before.tasks[i].schedule)
        /\ pull.id = None =>
               /\ (~pull.blocking => pull.ret = None)
               /\ previous_time = pull.before.previous_time
               /\ next_ids_buf = <<>>

\* A call returned None, a task with a schedule was inserted, and the next call
\* returned its id: the first id returned at all, by the second or a later call.
C20_Witness ==
    /\ Selected
    /\ pulls >= 2
    /\ batch.earlier = None
    /\ pull.before.previous_time = None

----------------------------------------------------------------------------
(* The registry: insert, remove, contains and next_ids_buf                 *)

\* The scheduler with the tasks that have no schedule left out.
WithoutEmpty(self) ==
    LET scheduled(entry) == ~IsEmptySchedules(entry.schedule)
    IN  [self EXCEPT !.tasks = SelectSeq(@, scheduled)]

\* The id a call of next returned is not that of a registered task that has
\* no schedule.
C21_EmptyNotReturned ==
    (IsPull /\ IsSome(pull.id)) =>
        \A i \in DOMAIN tasks :
            tasks[i].id = Unwrap(pull.id) => ~IsEmptySchedules(tasks[i].schedule)

\* A recomputing call of next returns the id and the time, and leaves the
\* cached times, previous_time and next_ids_buf, that it would with the tasks
\* that have no schedule taken out of the registry.
C21_OthersUnchanged ==
    Recomputed =>
        LET without == NextFrom(WithoutEmpty(pull.before), Unwrap(pull.min_next_time))
        IN  /\ ItemId(without.ret) = pull.id
            /\ (~pull.blocking => without.ret = pull.ret)
            /\ without.self = WithoutEmpty(Self)

\* C21: a task whose Schedules is empty is never returned by a call of next,
\* and its being registered changes neither the ids nor the fire times
\* returned for the other tasks.
C21_EmptyTaskInert == C21_EmptyNotReturned /\ C21_OthersUnchanged

\* A sequence with its k-th element taken out.
Without(q, k) == SubSeq(q, 1, k - 1) \o SubSeq(q, k + 1, Len(q))

\* The ids of the entries, in order.
Ids(entries) == [i \in DOMAIN entries |-> entries[i].id]

\* C22: insert(task) takes out the entry that has the task's id, if there is
\* one, and puts the new task last with no cached fire time, the other entries
\* staying as they were and in their order; and whatever calls of insert,
\* remove and next were made, no two registered tasks have the same id.
C22_InsertReplaces ==
    /\ Distinct(Ids(tasks))
    /\ pull.op = "insert" =>
           LET old == pull.before.tasks
               others == SubSeq(tasks, 1, Len(tasks) - 1)
           IN  /\ tasks # <<>>
               /\ tasks[Len(tasks)].id = pull.id
               /\ tasks[Len(tasks)].next_time = None
               /\ \A k \in DOMAIN old : old[k].id = pull.id => others = Without(old, k)
               /\ (\A k \in DOMAIN old : old[k].id # pull.id) => others = old

\* A task that had a cached fire time and was not the last is replaced.
C22_Witness ==
    /\ pull.op = "insert"
    /\ \E k \in DOMAIN pull.before.tasks :
        /\ k < Len(pull.before.tasks)
        /\ pull.before.tasks[k].id = pull.id
        /\ IsSome(pull.before.tasks[k].next_time)
    /\ tasks[Len(tasks)].next_time = None

\* C23: remove(id) leaves no entry with the id, keeps the others, and returns
\* true exactly when there was one; insert(task) returns true exactly when an
\* entry had the task's id; contains(id) returns true exactly when an entry
\* with the id is registered and changes nothing, so that contains(id) is true
\* right after insert of id and false right after remove(id).
C23_RegistryResults ==
    /\ pull.op = "remove" =>
           /\ pull.id \notin SeqRange(Ids(tasks))
           /\ pull.ret = (pull.id \in SeqRange(Ids(pull.before.tasks)))
           /\ \A k \in DOMAIN pull.before.tasks :
                  pull.before.tasks[k].id = pull.id => tasks = Without(pull.before.tasks, k)
           /\ ~pull.ret => tasks = pull.before.tasks
           /\ ~contains(Self, pull.id)
    /\ pull.op = "insert" =>
           /\ pull.ret = (pull.id \in SeqRange(Ids(pull.before.tasks)))
           /\ contains(Self, pull.id)
    /\ pull.op = "contains" =>
           /\ pull.ret = (pull.id \in SeqRange(Ids(tasks)))
           /\ Self = pull.before

\* contains finds an id that is registered but is not that of the first entry.
C23_Witness ==
    /\ pull.op = "contains"
    /\ pull.ret
    /\ Len(tasks) >= 2
    /\ tasks[1].id # pull.id

\* C24: in every reachable state, every id in next_ids_buf is the id of a
\* registered task whose cached fire time is the fire time last selected
\* (previous_time).
C24_BufferedAreDue ==
    \A i \in DOMAIN next_ids_buf :
        \E k \in DOMAIN tasks :
            /\ tasks[k].id = next_ids_buf[i]
            /\ IsSome(previous_time)
            /\ tasks[k].next_time = previous_time

----------------------------------------------------------------------------
(* The calls of next: what is recomputed, slept and returned               *)

\* C25: at a recomputing call of next, an entry whose cached fire time is
\* absent or earlier than the lower bound gets the next occurrence of its
\* Schedules from the lower bound, and an entry whose cached fire time is the
\* lower bound or later keeps it; the registry is otherwise as it was.
C25_StaleRecomputed ==
    Recomputed =>
        /\ DOMAIN tasks = DOMAIN pull.before.tasks
        /\ \A i \in DOMAIN tasks :
            LET old == pull.before.tasks[i]
                floor == Unwrap(pull.min_next_time)
            IN  /\ tasks[i].id = old.id
                /\ tasks[i].schedule = old.schedule
                /\ tasks[i].next_time =
                       IF old.next_time = None \/ Before(Unwrap(old.next_time), floor)
                       THEN schedules_next_occurrence(old.schedule, floor)
                       ELSE old.next_time

\* A recomputing call finds one cached fire time earlier than the lower bound
\* and one equal to it.
C25_Witness ==
    /\ Recomputed
    /\ \E i \in DOMAIN pull.before.tasks :
        /\ IsSome(pull.before.tasks[i].next_time)
        /\ Before(Unwrap(pull.before.tasks[i].next_time), Unwrap(pull.min_next_time))
        /\ Before(Unwrap(pull.min_next_time), Unwrap(tasks[i].next_time))
    /\ \E j \in DOMAIN pull.before.tasks :
        /\ pull.before.tasks[j].next_time = pull.min_next_time
        /\ tasks[j].next_time = pull.min_next_time

NanosPerSecond == 1000000000

\* The instant a Duration after an instant.
AddDuration(time, duration) ==
    LET nanos == time.nano + duration[2]
    IN  [AddSeconds(time, duration[1] + nanos \div NanosPerSecond)
             EXCEPT !.nano = nanos % NanosPerSecond]

ManualItem == IsPull /\ ~pull.blocking /\ IsSome(pull.ret)

\* The cached fire time of the registered task with the id, if there is one.
CachedTimeOf(entries, id) ==
    { entries[i].next_time : i \in { j \in DOMAIN entries : entries[j].id = id } }

\* C27 as stated: every item ManualSleep::next returns carries, with the id,
\* the fire time at which the task is due.
C27_Original ==
    ManualItem => Unwrap(pull.ret)[2] = Some(batch.time)

\* C27: an item returned by a call of ManualSleep::next that selected a fire
\* time carries that time, which is the cached fire time of the task returned
\* and previous_time; an item popped from next_ids_buf carries no time, the
\* fire time last selected being unchanged.
C27_ItemCarriesTime ==
    ManualItem =>
        IF pull.before.next_ids_buf = <<>>
        THEN /\ Unwrap(pull.ret)[2] = Some(batch.time)
             /\ Unwrap(pull.ret)[2] = previous_time
             /\ CachedTimeOf(tasks, Unwrap(pull.ret)[1]) = {Some(batch.time)}
        ELSE /\ Unwrap(pull.ret)[2] = None
             /\ previous_time = pull.before.previous_time
             /\ Unwrap(pull.before.previous_time) = batch.time

\* The second id of a tie is returned by ManualSleep::next.
C27_Witness ==
    /\ ManualItem
    /\ pull.before.next_ids_buf # <<>>
    /\ Len(batch.returned) = 2
    /\ Unwrap(pull.ret) = <<batch.returned[2], None>>

Reverse(q) == [i \in DOMAIN q |-> q[Len(q) + 1 - i]]

IsPrefix(p, q) == Len(p) <= Len(q) /\ p = SubSeq(q, 1, Len(p))

\* C28 as stated: the ids tied at a fire time are returned in the reverse of
\* the order in which their tasks were registered.
C28_Original ==
    batch # NotCalled => IsPrefix(batch.returned, Reverse(batch.order))

\* C28: the order in which the ids tied at a fire time are returned is fixed
\* by the order of their entries when the fire time was selected, whatever is
\* inserted or removed meanwhile: the id registered first comes first, and the
\* others follow in the reverse of the order in which they were registered.
C28_TieOrder ==
    batch # NotCalled =>
        /\ batch.order # <<>>
        /\ IsPrefix(batch.returned, <<batch.order[1]>> \o Reverse(Tail(batch.order)))

\* Three ids tied at one fire time were all returned.
C28_Witness ==
    /\ batch # NotCalled
    /\ Len(batch.order) = 3
    /\ batch.returned = <<batch.order[1], batch.order[3], batch.order[2]>>

----------------------------------------------------------------------------
(* SpecMonth: advance_to_dhms on every day of two years, for every day of  *)
(* the month a schedule may ask for                                        *)

\* The years of the instants under test: a common year followed by a leap
\* year, and a leap year followed by a common year.
LoopYears == {2023, 2024}

\* The last arm of the match of advance_to_dhms is taken: the day field has no
\* value at or after the current day, or has one that the month is too short
\* for.
LoopEntered(self, time) ==
    LET ct == CurrentAndTarget(self.day, time.day - 1)
    IN  \/ ct = None
        \/ /\ Unwrap(ct)[1] # Unwrap(ct)[2]
           /\ Unwrap(ct)[2] >= MIN_DAYS
           /\ Unwrap(ct)[2] >= days_in_month(time.year, time.month)

InitMonth ==
    /\ \E day \in 1..31 : pattern = at_day(new_every_second, day)
    /\ \E year \in LoopYears, month \in 1..12, day \in 1..31 :
        /\ day <= days_in_month(year, month)
        /\ now = DateTime(year, month, day, 0, 0, 0, 0)
    /\ occ = NotCalled
    /\ IdleField
    /\ IdlePack
    /\ IdleBuf
    /\ IdleBuild
    /\ IdleMerge
    /\ IdleSched

\* pattern.advance_to_dhms(now), with what the month loop found, if it ran.
AdvanceToDhms ==
    /\ occ = NotCalled
    /\ occ' = [op |-> "advance_to_dhms", res |-> advance_to_dhms(pattern, now),
               loop |-> IF LoopEntered(pattern, now)
                        THEN Some(MonthSearch(min_value(pattern.day), now.year, now.month, 0))
                        ELSE None]
    /\ UNCHANGED <<pattern, now, fieldVars, buildVars, mergeVars, schedVars, packVars, bufVars>>

NextMonth == AdvanceToDhms

SpecMonth == InitMonth /\ [][NextMonth]_vars

\* C29: whenever advance_to_dhms enters its month loop, the loop ends, within
\* 12 iterations, at the first month after the current one (January of the
\* next year following December) that has the day field's minimum day, and
\* the result is that day of that month.
C29_MonthSearchEnds ==
    (occ.op = "advance_to_dhms" /\ IsSome(occ.loop)) =>
        LET found == Unwrap(occ.loop)
        IN  /\ found # <<>>
            /\ found[3] \in 1..12
            /\ <<found[1], found[2]>> =
                   FirstMonthHolding(min_value(pattern.day), now.year, now.month)
            /\ Before(now, DateTime(found[1], found[2], 1, 0, 0, 0, 0))
            /\ ~IsPanic(occ.res)
            /\ <<occ.res.year, occ.res.month, occ.res.day>> =
                   <<found[1], found[2], min_value(pattern.day) + 1>>

\* Day 30 asked for on 31 January: the loop goes past February to March.
C29_Witness ==
    /\ occ.op = "advance_to_dhms"
    /\ IsSome(occ.loop)
    /\ now.month = 1
    /\ now.day = 31
    /\ Unwrap(occ.loop) = <<now.year, 3, 2>>
    /\ occ.res = DateTime(now.year, 3, 30, 0, 0, 0, 0)

----------------------------------------------------------------------------
(* Carries of next_occurrence (Spec)                                       *)

\* The result has the second, the minute and the second, or the hour, the
\* minute and the second, of the least values of the fields.
SecondAtMinimum(p, t) == t.second = min_value(p.second)
MinuteAtMinimum(p, t) == t.minute = min_value(p.minute) /\ SecondAtMinimum(p, t)
HourAtMinimum(p, t) == t.hour = min_value(p.hour) /\ MinuteAtMinimum(p, t)

\* C30: when the result of next_occurrence has another minute than the input,
\* its second is the least value of the second field; when it has another
\* hour, its minute and second are the least values of their fields; when it
\* has another day, month or year, its hour, minute and second are.
C30_CarriesReset ==
    Returned =>
        /\ ~IsPanic(occ.res)
        /\ occ.res.minute # now.minute => SecondAtMinimum(pattern, occ.res)
        /\ occ.res.hour # now.hour => MinuteAtMinimum(pattern, occ.res)
        /\ <<occ.res.year, occ.res.month, occ.res.day>> # <<now.year, now.month, now.day>> =>
               HourAtMinimum(pattern, occ.res)

\* The hour is moved on within the day, to a minute and a second that are the
\* least of their fields and are not those of the input.
C30_Witness ==
    /\ Returned
    /\ ~IsPanic(occ.res)
    /\ <<occ.res.year, occ.res.month, occ.res.day>> = <<now.year, now.month, now.day>>
    /\ occ.res.hour # now.hour
    /\ occ.res.minute # now.minute
    /\ occ.res.second # now.second
    /\ min_value(pattern.minute) # 0
    /\ min_value(pattern.second) # 0
    /\ MinuteAtMinimum(pattern, occ.res)

\* The instant at the start of its second.
Truncated(t) == [t EXCEPT !.nano = 0]

\* C31: whether an instant satisfies the schedule is decided by its day, hour,
\* minute and second alone: an instant that satisfies it is returned as it is,
\* sub-second part included, and one that does not gives what the start of
\* its second gives; and an instant returned that is not the input has a
\* sub-second part of zero.
C31_WholeSeconds ==
    Returned =>
        /\ ~IsPanic(occ.res)
        /\ (occ.res = now) = Matches(pattern, now)
        /\ occ.res # now => occ.res.nano = 0
        /\ occ.res # now => occ.res = next_occurrence(pattern, Truncated(now))

\* An instant with a sub-second part is moved within its minute, to a second
\* that is not the least of the field.
C31_Witness ==
    /\ Returned
    /\ ~IsPanic(occ.res)
    /\ now.nano > 0
    /\ ~Matches(pattern, now)
    /\ <<occ.res.year, occ.res.month, occ.res.day, occ.res.hour, occ.res.minute>> =
           <<now.year, now.month, now.day, now.hour, now.minute>>
    /\ occ.res.second > now.second
    /\ occ.res.nano = 0

----------------------------------------------------------------------------
(* Scheduler against ManualSleep, and the cache against recomputation      *)

\* What ManualSleep::next does on the scheduler the last call of next found,
\* with the reading of the clock that call had (none is taken when an id is
\* popped).
ManualOnSame ==
    manual_sleep_next(pull.before,
                      IF IsSome(pull.clock) THEN Unwrap(pull.clock)
                      ELSE CHOOSE c \in ClockReadings : TRUE)

\* C32: a call of Scheduler::next returns the id that ManualSleep::next
\* returns on the same scheduler with the same reading of the clock (and none
\* when it returns none), and leaves tasks, cached fire times, next_ids_buf
\* and previous_time as ManualSleep::next leaves them; it reads the clock once
\* more, and may sleep, only when the item carries a fire time.
C32_SchedulerRefinesManualSleep ==
    (IsPull /\ pull.blocking) =>
        /\ pull.id = ItemId(ManualOnSame.ret)
        /\ Self = ManualOnSame.self
        /\ pull.reads - ManualOnSame.reads =
               (IF IsSome(ManualOnSame.ret) /\ IsSome(Unwrap(ManualOnSame.ret)[2])
                THEN 1 ELSE 0)
        /\ pull.reads = ManualOnSame.reads => pull.slept = ZeroDuration

\* Scheduler::next returns the second id of a tie, without a sleep.
C32_Witness ==
    /\ IsPull
    /\ pull.blocking
    /\ pull.before.next_ids_buf # <<>>
    /\ Len(batch.returned) = 2
    /\ pull.id = Some(batch.returned[2])
    /\ ManualOnSame.ret = Some(<<batch.returned[2], None>>)
    /\ pull.slept = ZeroDuration

\* The next occurrences of the registered tasks from an instant, computed
\* afresh: Some(time) for each task that has one.
FreshTimes(entries, from) ==
    { schedules_next_occurrence(entries[i].schedule, from) : i \in DOMAIN entries } \ {None}

\* The earliest of a set of Some(time).
Earliest(S) == CHOOSE t \in S : \A u \in S : AtOrBefore(Unwrap(t), Unwrap(u))

\* C33: at every recomputing call of next, every cached fire time, kept or
\* recomputed, is what the task's Schedules gives afresh from the lower bound
\* of the call, and the fire time selected is the earliest of these; no id is
\* returned exactly when no task has one.
C33_CacheTransparent ==
    Recomputed =>
        LET floor == Unwrap(pull.min_next_time)
            fresh == FreshTimes(tasks, floor)
        IN  /\ \A i \in DOMAIN tasks :
                   tasks[i].next_time = schedules_next_occurrence(tasks[i].schedule, floor)
            /\ (fresh = {}) = (pull.id = None)
            /\ fresh # {} => previous_time = Earliest(fresh)

\* A cached fire time later than the lower bound is kept and is the one
\* selected.
C33_Witness ==
    /\ Selected
    /\ \E i \in DOMAIN tasks :
        /\ IsSome(pull.before.tasks[i].next_time)
        /\ Before(Unwrap(pull.min_next_time), Unwrap(pull.before.tasks[i].next_time))
        /\ tasks[i].next_time = pull.before.tasks[i].next_time
        /\ previous_time = tasks[i].next_time
        /\ pull.id = Some(tasks[i].id)

----------------------------------------------------------------------------
(* Removal, fairness to every task, and the frame of insert and remove     *)

\* C34: a call of next does not return an id that no registered task has: once
\* remove(id) has returned, id is not returned until a task with that id is
\* inserted again, also when id was in next_ids_buf when it was removed.
C34_RemovedNotReturned ==
    (IsPull /\ IsSome(pull.id)) =>
        Unwrap(pull.id) \in SeqRange(Ids(pull.before.tasks))

\* ManualSleep::with
with(self, task) == insert(self, task).self

\* The tasks that may be registered.
TasksUnderTest == { Task(id, TaskSchedules(i)) : id \in TaskIds, i \in TaskScheduleChoices }

\* The schedulers `ManualSleep::new().with(..)` builds with up to three tasks.
WithOne == { with(ManualSleepNew, t) : t \in TasksUnderTest }
WithTwo == { with(one, t) : one \in WithOne, t \in TasksUnderTest }
WithThree == { with(two, t) : two \in WithTwo, t \in TasksUnderTest }

\* SpecPull: a scheduler with its tasks registered, on which next is called,
\* again and again as long as the budget of calls lasts.
InitPull ==
    /\ \E built \in {ManualSleepNew} \cup WithOne \cup WithTwo \cup WithThree :
        /\ tasks = built.tasks
        /\ next_ids_buf = built.next_ids_buf
        /\ previous_time = built.previous_time
    /\ pull = NotCalled
    /\ batch = NotCalled
    /\ pulls = 0
    /\ edits = 0
    /\ IdleField
    /\ IdlePack
    /\ IdleBuf
    /\ IdleBuild
    /\ IdleOcc
    /\ IdleMerge

NextPull == ManualSleepNext \/ SchedulerNext

\* A call of next is made: the steps of NextPull, each of which counts itself
\* in pulls, and enabled as they are, while the budget lasts.
NextIsCalled == pulls < MaxPulls /\ pulls' = pulls + 1

\* Calls of next go on: the hypothesis of a caller that keeps pulling.
SpecPull == InitPull /\ [][NextPull]_vars /\ WF_pulls(NextIsCalled)

\* A task with the id is registered and has a schedule.
HasSchedule(id) ==
    \E k \in DOMAIN tasks : tasks[k].id = id /\ ~IsEmptySchedules(tasks[k].schedule)

\* The clock read by a call of next is not later than the fire time selected
\* before.
ClockNotAhead ==
    (IsPull /\ IsSome(pull.clock) /\ IsSome(pull.before.previous_time)) =>
        AtOrBefore(Unwrap(pull.clock), Unwrap(pull.before.previous_time))

\* C35: with the registered tasks fixed and next called as long as it may be,
\* the clock never read later than the fire time selected before, every task
\* that has a schedule is returned at some call, and no call returns None
\* while such a task is registered.
C35_NoStarvation ==
    []ClockNotAhead =>
        /\ \A id \in TaskIds : HasSchedule(id) => <>(IsPull /\ pull.id = Some(id))
        /\ []((IsPull /\ \E id \in TaskIds : HasSchedule(id)) => IsSome(pull.id))

\* A task that fires once a minute is returned after one that fires every 25
\* seconds was returned twice as a tie.
C35_Witness ==
    /\ pulls = 3
    /\ Len(tasks) = 3
    /\ IsPull
    /\ IsSome(pull.id)
    /\ \E k \in DOMAIN tasks :
        /\ tasks[k].id = Unwrap(pull.id)
        /\ tasks[k].schedule = TaskSchedules(3)
    /\ batch.returned = <<Unwrap(pull.id)>>
    /\ IsSome(batch.earlier)
    /\ Before(Unwrap(batch.earlier), batch.time)

\* The entries other than those with the id, in order.
Others(entries, id) ==
    LET other(entry) == entry.id # id
    IN  SelectSeq(entries, other)

\* insert and remove leave previous_time, next_ids_buf and the other entries,
\* their cached times and their order, as they were.
C36_EditFrame ==
    pull.op \in {"insert", "remove"} =>
        /\ previous_time = pull.before.previous_time
        /\ next_ids_buf = pull.before.next_ids_buf
        /\ Others(tasks, pull.id) = Others(pull.before.tasks, pull.id)

\* A task is returned only once a recomputing call has cached its fire time,
\* and at that time: the entry of an id returned is cached at previous_time,
\* which an entry inserted since the last selection is not.
C36_NewTaskWaits ==
    (IsPull /\ IsSome(pull.id)) =>
        \A k \in DOMAIN tasks :
            tasks[k].id = Unwrap(pull.id) => tasks[k].next_time = previous_time

\* C36: insert and remove change only the tasks: previous_time, next_ids_buf
\* and the cached fire time and order of every other task stay as they were,
\* so that a task inserted or replaced is first considered by the next
\* recomputing call of next and is not returned at or before the fire time
\* selected before.
C36_EditsChangeTasksOnly == C36_EditFrame /\ C36_NewTaskWaits

\* The ids of the tasks due at a time, t1, .., tk, in the order of their
\* entries.
TieGroup(entries, time) ==
    LET due(entry) == entry.next_time = Some(time)
    IN  Ids(SelectSeq(entries, due))

\* A call of next that selects a fire time returns t1, with the time if it is
\* ManualSleep::next, and leaves t2, .., tk waiting.
TieOpened ==
    LET tie == TieGroup(tasks', Unwrap(previous_time'))
    IN  /\ pull'.id = Some(tie[1])
        /\ next_ids_buf' = Tail(tie)
        /\ ~pull'.blocking => pull'.ret = Some(<<tie[1], previous_time'>>)

\* A call of next that finds ids waiting returns the last of them and leaves
\* the others waiting.
TieContinued ==
    /\ pull'.id = Some(next_ids_buf[Len(next_ids_buf)])
    /\ next_ids_buf' = SubSeq(next_ids_buf, 1, Len(next_ids_buf) - 1)

\* C37: for tasks t1, t2, .., tk tied at a fire time, in the order of their
\* registration, the call of next that selects the time returns t1 (with the
\* time, for ManualSleep) and leaves t2, .., tk waiting, and each following
\* call returns the last id still waiting: tk, tk-1, .., t2 in that order.
C37_TieSequence ==
    [][(pulls' = pulls + 1 /\ IsSome(pull'.id)) =>
           IF next_ids_buf = <<>> THEN TieOpened ELSE TieContinued]_vars

\* The last of three tied ids, t2, is returned by the third call.
C37_Witness ==
    /\ IsPull
    /\ pulls = 3
    /\ Len(tasks) = 3
    /\ batch # NotCalled
    /\ TieGroup(tasks, batch.time) = Ids(tasks)
    /\ pull.before.next_ids_buf = <<tasks[2].id>>
    /\ pull.id = Some(tasks[2].id)
    /\ batch.returned = <<tasks[1].id, tasks[3].id, tasks[2].id>>

----------------------------------------------------------------------------
\* time_val.rs: the bit-packed field encoding, SpecificTime<N> and TimeVal<N>.

RECURSIVE FlipBits(_, _)
\* The lowest `bits` bits of x, each one flipped.
FlipBits(x, bits) ==
    IF bits = 0 THEN 0 ELSE (1 - (x % 2)) + 2 * FlipBits(x \div 2, bits - 1)

\* `!x` on a u8: all eight bits flipped.
BitNot(x) == FlipBits(x, 8)

\* The const parameters N the crate instantiates: TimeVal<31>, <24>, <60>.
PackDomains == {24, 31, 60}

SpecificTimeNewUnreduced(N, n) ==
    IF ~(N > 0) THEN [panic |-> "N must be greater than 0"] ELSE [repr |-> BitNot(n)]
\* SpecificTime::<N>::new(n): asserts N > 0 and stores !(n % N) as a NonZeroU8.
\* NonZeroU8::new_unchecked is called without a test: the field holds whatever
\* byte the complement is.
SpecificTimeNew(N, n) ==
    IF ~(N > 0) THEN [panic |-> "N must be greater than 0"] ELSE [repr |-> BitNot(n % N)]

\* SpecificTime::get: !self.0.get()
SpecificTimeGet(self) == BitNot(self.repr)

\* TimeVal<N>: Every is None, At(t) is Some(t).
TimeValEvery == None
TimeValAt(N, n) == Some(SpecificTimeNew(N, n))

\* TimeVal::min_valid
min_valid(self) == IF IsSome(self) THEN SpecificTimeGet(Unwrap(self)) ELSE 0

InitPack ==
    /\ \E N \in PackDomains, n \in U8 : given = [N |-> N, n |-> n]
    /\ specific = NotCalled
    /\ decoded = NotCalled
    /\ IdleField
    /\ IdleBuild
    /\ IdleOcc
    /\ IdleMerge
    /\ IdleSched
    /\ IdleBuf

\* let t = SpecificTime::<N>::new(n)
SpecificNew ==
    /\ specific = NotCalled
    /\ specific' = SpecificTimeNew(given.N, given.n)
    /\ UNCHANGED <<given, decoded, fieldVars, buildVars, occVars, mergeVars, schedVars, bufVars>>

\* t.get()
SpecificGet ==
    /\ specific # NotCalled
    /\ ~IsPanic(specific)
    /\ decoded = NotCalled
    /\ decoded' = [op |-> "get", ret |-> SpecificTimeGet(specific)]
    /\ UNCHANGED <<given, specific, fieldVars, buildVars, occVars, mergeVars, schedVars, bufVars>>

NextPack == SpecificNew \/ SpecificGet

SpecPack == InitPack /\ [][NextPack]_vars

\* C38: SpecificTime::<N>::new(n).get() is n mod N for every n in 0..=255 and
\* N in {24, 31, 60}, and the stored byte, the 8-bit complement of n mod N, is
\* never zero.
C38_PackedRoundTrip ==
    /\ specific # NotCalled =>
        /\ specific.repr \in 1..U8Max
        /\ specific.repr + (given.n % given.N) = U8Max
    /\ decoded # NotCalled => decoded.ret = given.n % given.N

\* A multiple of N went in: zero came back out of the byte 0xFF.
C38_Witness ==
    /\ decoded # NotCalled
    /\ given.n > 0
    /\ decoded.ret = 0
    /\ specific.repr = U8Max

----------------------------------------------------------------------------
\* task_time.rs: TaskTime, the pattern TaskTimeBuf holds. Each field is a
\* TimeVal: one specific value or Every.

TaskTimeNew(day, hour, minute, second) ==
    [day |-> day, hour |-> hour, minute |-> minute, second |-> second]

\* #[derive(Default)]: every field is TimeVal::default(), that is Every.
TaskTimeDefault == TaskTimeNew(TimeValEvery, TimeValEvery, TimeValEvery, TimeValEvery)

\* TaskTime::advance_to_s
TaskTimeAdvanceToS(self, time) ==
    IF ~IsSome(self.second)
    THEN time
    ELSE LET second == SpecificTimeGet(Unwrap(self.second))
         IN  IF time.second = second THEN time
             ELSE IF time.second < second THEN Expect(with_second(time, second))
             ELSE Expect(with_second(AddSeconds(time, 60), second))

\* The match of advance_to_ms once `let time = self.advance_to_s(time)` is bound.
TaskTimeMinuteArms(self, time) ==
    IF ~IsSome(self.minute)
    THEN time
    ELSE LET minute == SpecificTimeGet(Unwrap(self.minute))
         IN  IF time.minute = minute THEN time
             ELSE IF time.minute < minute
             THEN Expect(then_with_second(with_minute(time, minute),
                                          min_valid(self.second)))
             ELSE Expect(then_with_second(with_minute(AddSeconds(time, 3600), minute),
                                          min_valid(self.second)))

\* TaskTime::advance_to_ms
TaskTimeAdvanceToMs(self, time) == TaskTimeMinuteArms(self, TaskTimeAdvanceToS(self, time))

\* The match of advance_to_hms once `let time = self.advance_to_ms(time)` is bound.
TaskTimeHourArms(self, time) ==
    IF ~IsSome(self.hour)
    THEN time
    ELSE LET hour == SpecificTimeGet(Unwrap(self.hour))
             next == date_succ(time)
         IN  IF time.hour = hour THEN time
             ELSE IF time.hour < hour
             THEN Expect(then_with_second(then_with_minute(with_hour(time, hour),
                             min_valid(self.minute)), min_valid(self.second)))
             ELSE Expect(then_with_second(with_minute(
                             ymd_and_hms(next[1], next[2], next[3],
                                         hour, time.minute, time.second),
                             min_valid(self.minute)), min_valid(self.second)))

\* TaskTime::advance_to_hms
TaskTimeAdvanceToHms(self, time) == TaskTimeHourArms(self, TaskTimeAdvanceToMs(self, time))

\* The return after the `loop` of TaskTime::advance_to_dhms. The loop is the
\* loop of Schedule::advance_to_dhms, statement for statement: MonthSearch.
TaskTimeMonthArm(target_day, time, found) ==
    IF found = <<>>
    THEN Diverged
    ELSE ymd_and_hms(found[1], found[2], target_day + 1,
                     time.hour, time.minute, time.second)

\* advance_to_dhms once the day differs from the target and `time` has been
\* set to the least valid hour, minute and second.
TaskTimeDayArms(day_less_than_target, target_day, time) ==
    IF /\ day_less_than_target
       /\ \/ target_day < MIN_DAYS
          \/ target_day < days_in_month(time.year, time.month)
    THEN Expect(with_day0(time, target_day))
    ELSE TaskTimeMonthArm(target_day, time,
                          MonthSearch(target_day, time.year, time.month, 0))

\* advance_to_dhms once `let time = self.advance_to_hms(time)` is bound.
TaskTimeDayStage(self, time) ==
    IF ~IsSome(self.day)
    THEN time
    ELSE LET target_day == SpecificTimeGet(Unwrap(self.day))
         IN  IF time.day - 1 = target_day
             THEN time
             ELSE TaskTimeDayArms(time.day - 1 < target_day, target_day,
                      Expect(then_with_second(then_with_minute(
                          with_hour(time, min_valid(self.hour)),
                          min_valid(self.minute)), min_valid(self.second))))

\* TaskTime::advance_to_dhms
TaskTimeAdvanceToDhms(self, time) == TaskTimeDayStage(self, TaskTimeAdvanceToHms(self, time))

\* TaskTime::next_occurrence
TaskTimeNextOccurrence(self, nowArg) == TaskTimeAdvanceToDhms(self, nowArg)

----------------------------------------------------------------------------
\* task_time_buf.rs: TaskTimeBuf, a small-vector of TaskTime.

ARRAY_LEN == 5

\* TaskTimeBufRepr::new_from_vec: the stack array is [TaskTime::default(); ARRAY_LEN]
\* with the vector copied over buf[..n].
TaskTimeBufReprNewFromVec(v) ==
    IF Len(v) <= ARRAY_LEN
    THEN [kind |-> "Stack",
          buf |-> [i \in 1..ARRAY_LEN |-> IF i <= Len(v) THEN v[i] ELSE TaskTimeDefault],
          len |-> Len(v)]
    ELSE [kind |-> "Heap", buf |-> v]

\* TaskTimeBuf::new_from_vec
TaskTimeBufNewFromVec(v) == [repr |-> TaskTimeBufReprNewFromVec(v)]

TaskTimeBufReprIterWholeBuf(self) == self.buf
\* TaskTimeBufRepr::iter: buf[..len] of the stack array, or the whole boxed slice.
TaskTimeBufReprIter(self) ==
    IF self.kind = "Stack" THEN SubSeq(self.buf, 1, self.len) ELSE self.buf

\* TaskTimeBuf::iter
TaskTimeBufIter(self) == TaskTimeBufReprIter(self.repr)

\* self.iter().map(|time| time.next_occurrence(now))
TaskTimeOccurrences(items, nowArg) ==
    [i \in DOMAIN items |-> TaskTimeNextOccurrence(items[i], nowArg)]

\* TaskTimeBuf::next_occurrence
TaskTimeBufNextOccurrence(self, nowArg) ==
    MinOrUnwind(TaskTimeOccurrences(TaskTimeBufIter(self), nowArg))

\* Longest vector given to new_from_vec: one more than the inline capacity.
MaxVecLen == 6

\* TT3, TT4 and TT5 of the tests of task_time_buf.rs; at_day(d) is TimeVal::at(d - 1).
BufPatterns ==
    { TaskTimeNew(TimeValEvery, TimeValEvery, TimeValAt(60, 5), TimeValAt(60, 0)),
      TaskTimeNew(TimeValEvery, TimeValEvery, TimeValEvery, TimeValAt(60, 15)),
      TaskTimeNew(TimeValAt(31, 10), TimeValAt(24, 10), TimeValAt(60, 15),
                  TimeValAt(60, 0)) }

\* The instant of the tests, and one a second past TT5 on its day.
BufInstants ==
    { DateTime(2022, 4, 4, 18, 1, 14, 0), DateTime(2022, 4, 11, 10, 15, 1, 0) }

VecsUnderTest == UNION { [1..n -> BufPatterns] : n \in 0..MaxVecLen }

InitBuf ==
    /\ vec \in VecsUnderTest
    /\ time_buf = NotCalled
    /\ seen = NotCalled
    /\ IdleField
    /\ IdleBuild
    /\ IdleOcc
    /\ IdleMerge
    /\ IdleSched
    /\ IdlePack

\* let buf = TaskTimeBuf::new_from_vec(vec)
NewFromVec ==
    /\ time_buf = NotCalled
    /\ time_buf' = TaskTimeBufNewFromVec(vec)
    /\ UNCHANGED <<vec, seen, fieldVars, buildVars, occVars, mergeVars, schedVars, packVars>>

\* buf.iter(), run to its end
Iter ==
    /\ time_buf # NotCalled
    /\ seen = NotCalled
    /\ seen' = [op |-> "iter", items |-> TaskTimeBufIter(time_buf)]
    /\ UNCHANGED <<vec, time_buf, fieldVars, buildVars, occVars, mergeVars, schedVars,
                   packVars>>

\* buf.next_occurrence(now)
BufNextOccurrence ==
    /\ time_buf # NotCalled
    /\ seen = NotCalled
    /\ \E nowArg \in BufInstants :
        seen' = [op |-> "next_occurrence", now |-> nowArg,
                 ret |-> TaskTimeBufNextOccurrence(time_buf, nowArg)]
    /\ UNCHANGED <<vec, time_buf, fieldVars, buildVars, occVars, mergeVars, schedVars,
                   packVars>>

NextBuf == NewFromVec \/ Iter \/ BufNextOccurrence

SpecBuf == InitBuf /\ [][NextBuf]_vars

\* C39: a TaskTimeBuf built from a vector of n patterns is the stack
\* representation for n <= 5 and the heap representation for n > 5; iteration
\* yields exactly the n patterns in their order (never an unused slot of the
\* stack array), and next_occurrence is the earliest next occurrence of those
\* n patterns (None for n = 0), whichever the representation.
C39_BufIsItsVector ==
    /\ time_buf # NotCalled =>
        /\ time_buf.repr.kind = (IF Len(vec) <= ARRAY_LEN THEN "Stack" ELSE "Heap")
        /\ time_buf.repr.kind = "Stack" =>
            /\ Len(time_buf.repr.buf) = ARRAY_LEN
            /\ time_buf.repr.len = Len(vec)
    /\ seen.op = "iter" => seen.items = vec
    /\ seen.op = "next_occurrence" =>
        /\ (seen.ret = None) <=> (vec = <<>>)
        /\ vec # <<>> =>
            /\ \E i \in DOMAIN vec :
                   Unwrap(seen.ret) = TaskTimeNextOccurrence(vec[i], seen.now)
            /\ \A i \in DOMAIN vec :
                   AtOrBefore(Unwrap(seen.ret), TaskTimeNextOccurrence(vec[i], seen.now))

\* Two patterns on the stack: the three unused slots hold the default pattern,
\* whose next occurrence is `now` itself, and the buffer answered a later time.
C39_Witness ==
    /\ time_buf # NotCalled
    /\ time_buf.repr.kind = "Stack"
    /\ time_buf.repr.len = 2
    /\ time_buf.repr.buf[ARRAY_LEN] = TaskTimeDefault
    /\ seen.op = "next_occurrence"
    /\ IsSome(seen.ret)
    /\ Before(seen.now, Unwrap(seen.ret))

============================================================================
